---- MODULE Spec2Model ----
(***************************************************************************)
(* Model of 12_ApiBuk_NV.py: the export run of main() (period discovery,   *)
(* sequential pagination, per-employee classification into the active and  *)
(* terminated row sets, stable sort, CSV output) and the normalizers it    *)
(* relies on.  Strings are sequences of one-character strings (a character *)
(* outside ASCII is written by name: "n~", "en-dash"); Python's None is    *)
(* the value None below.                                                   *)
(***************************************************************************)
EXTENDS Integers, Sequences, FiniteSets, TLC

VARIABLES
    pc,                   \* position of main()
    period_closed,        \* <<period_closed_start, period_closed_end>>
    period_open,          \* <<period_open_start, period_open_end>>
    page,                 \* page number of the next / current request
    empleados,            \* records of the page being processed
    i,                    \* records of the current page already classified
    rows_activos,         \* active rows of the current page
    all_rows,             \* active rows of the finished pages
    filtered_rows,        \* terminated rows
    added_activos_page, added_fini_page,
    total_added_activos, total_added_fini,
    processed_global,
    df, df_filtered,      \* the sorted frames
    csv_semi, csv_filtered, \* the two output files (NoFile until written)
    summary,              \* the two totals printed by the final summary
    requests,             \* history: every HTTP request issued, in order
    responses,            \* history: the answer to each request of `requests`
    seen,                 \* history: every employee record classified, in order
    call,                 \* the arguments of a function called on its own
    returned              \* what that call returned

vars == <<pc, period_closed, period_open, page, empleados, i, rows_activos,
          all_rows, filtered_rows, added_activos_page, added_fini_page,
          total_added_activos, total_added_fini, processed_global,
          df, df_filtered, csv_semi, csv_filtered, summary,
          requests, responses, seen, call, returned>>

-----------------------------------------------------------------------------
(* Bounds of the model *)

\* records the employees collaborator returns in one run, over all pages
MaxEmps == 2

-----------------------------------------------------------------------------
(* Strings *)

None == <<"None">>

Digits == {"0","1","2","3","4","5","6","7","8","9"}

DigitVal(c) ==
    CASE c = "0" -> 0 [] c = "1" -> 1 [] c = "2" -> 2 [] c = "3" -> 3
      [] c = "4" -> 4 [] c = "5" -> 5 [] c = "6" -> 6 [] c = "7" -> 7
      [] c = "8" -> 8 [] c = "9" -> 9

DigitChar(n) == <<"0","1","2","3","4","5","6","7","8","9">>[n + 1]

\* code points of the characters the model uses
Ord(c) ==
    CASE c = " " -> 32 [] c = "-" -> 45 [] c = "." -> 46 [] c = "/" -> 47
      [] c \in Digits -> 48 + DigitVal(c)
      [] c = "A" -> 65 [] c = "C" -> 67 [] c = "K" -> 75
      [] c = "a" -> 97 [] c = "b" -> 98 [] c = "c" -> 99 [] c = "d" -> 100
      [] c = "e" -> 101 [] c = "i" -> 105 [] c = "k" -> 107 [] c = "n" -> 110
      [] c = "o" -> 111 [] c = "r" -> 114 [] c = "s" -> 115 [] c = "t" -> 116
      [] OTHER -> 241

LOWERCASE == <<"a","b","c","d","e","f","g","h","i","j","k","l","m",
               "n","o","p","q","r","s","t","u","v","w","x","y","z">>
UPPERCASE == <<"A","B","C","D","E","F","G","H","I","J","K","L","M",
               "N","O","P","Q","R","S","T","U","V","W","X","Y","Z">>

IndexIn(alphabet, c) == CHOOSE k \in 1..Len(alphabet) : alphabet[k] = c

\* str.lower() and str.upper() on the characters the model uses
LowerChar(c) ==
    CASE c = "A-acute" -> "a-acute" [] c = "N~" -> "n~"
      [] \E k \in 1..26 : UPPERCASE[k] = c -> LOWERCASE[IndexIn(UPPERCASE, c)]
      [] OTHER -> c

UpperChar(c) ==
    CASE c = "a-acute" -> "A-acute" [] c = "n~" -> "N~"
      [] \E k \in 1..26 : LOWERCASE[k] = c -> UPPERCASE[IndexIn(LOWERCASE, c)]
      [] OTHER -> c

upper(s) == [k \in 1..Len(s) |-> UpperChar(s[k])]

lower(s) == [k \in 1..Len(s) |-> LowerChar(s[k])]

RECURSIVE lstrip(_)
lstrip(s) == IF s # <<>> /\ Head(s) = " " THEN lstrip(Tail(s)) ELSE s

RECURSIVE rstrip(_)
rstrip(s) ==
    IF s # <<>> /\ s[Len(s)] = " " THEN rstrip(SubSeq(s, 1, Len(s) - 1)) ELSE s

\* str.strip()
strip(s) == rstrip(lstrip(s))

\* str.isdigit()
isdigit(s) == s # <<>> /\ \A k \in 1..Len(s) : s[k] \in Digits

RECURSIVE DecValue(_)
DecValue(s) ==
    IF s = <<>> THEN 0 ELSE DecValue(SubSeq(s, 1, Len(s) - 1)) * 10 + DigitVal(s[Len(s)])

\* str.split(sep) for a one-character separator
RECURSIVE split(_, _)
split(s, sep) ==
    IF \A k \in 1..Len(s) : s[k] # sep THEN <<s>>
    ELSE LET p == CHOOSE k \in 1..Len(s) : s[k] = sep /\ \A j \in 1..(k - 1) : s[j] # sep
         IN <<SubSeq(s, 1, p - 1)>> \o split(SubSeq(s, p + 1, Len(s)), sep)

\* str.replace(ch, "") for a one-character ch
RECURSIVE remove(_, _)
remove(s, ch) ==
    IF s = <<>> THEN <<>>
    ELSE (IF Head(s) = ch THEN <<>> ELSE <<Head(s)>>) \o remove(Tail(s), ch)

\* Python's < on strings: lexicographic by code point
RECURSIVE StrLT(_, _)
StrLT(a, b) ==
    IF b = <<>> THEN FALSE
    ELSE IF a = <<>> THEN TRUE
    ELSE IF Head(a) # Head(b) THEN Ord(Head(a)) < Ord(Head(b))
    ELSE StrLT(Tail(a), Tail(b))

StrLE(a, b) == a = b \/ StrLT(a, b)

Pad2(n) == <<DigitChar(n \div 10), DigitChar(n % 10)>>

Pad4(n) == <<DigitChar(n \div 1000), DigitChar((n \div 100) % 10),
             DigitChar((n \div 10) % 10), DigitChar(n % 10)>>

-----------------------------------------------------------------------------
(* Date normalizer *)

IsLeap(y) == (y % 4 = 0 /\ y % 100 # 0) \/ y % 400 = 0

DaysInMonth(y, m) ==
    IF m = 2 THEN (IF IsLeap(y) THEN 29 ELSE 28)
    ELSE IF m \in {4, 6, 9, 11} THEN 30 ELSE 31

\* the four patterns tried, in order: separator and field order
DATE_FORMATS ==
    << [sep |-> "-", order |-> "Ymd"], [sep |-> "/", order |-> "dmY"],
       [sep |-> "/", order |-> "Ymd"], [sep |-> "-", order |-> "dmY"] >>

BadDate == [ok |-> FALSE, Y |-> 0, m |-> 0, d |-> 0]

\* the date must exist (year 1 or later, month 1..12, a day of that month)
checked_date(y, m, d) ==
    IF y >= 1 /\ m \in 1..12 /\ d >= 1 /\ d <= DaysInMonth(y, m)
    THEN [ok |-> TRUE, Y |-> y, m |-> m, d |-> d]
    ELSE BadDate

\* %d also takes a blank followed by one digit
day_digits(ds) == IF Len(ds) = 2 /\ ds[1] = " " THEN <<ds[2]>> ELSE ds

\* %Y is exactly four digits, %m and %d one or two
parsed_fields(ys, ms, ds) ==
    IF /\ isdigit(ys) /\ isdigit(ms) /\ isdigit(day_digits(ds))
       /\ Len(ys) = 4 /\ Len(ms) \in {1, 2} /\ Len(ds) \in {1, 2}
    THEN checked_date(DecValue(ys), DecValue(ms), DecValue(day_digits(ds)))
    ELSE BadDate

strptime_fields(parts, order) ==
    IF Len(parts) # 3 THEN BadDate
    ELSE IF order = "Ymd" THEN parsed_fields(parts[1], parts[2], parts[3])
    ELSE parsed_fields(parts[3], parts[2], parts[1])

\* datetime.strptime(s, fmt); ok = FALSE stands for the ValueError
strptime(s, fmt) == strptime_fields(split(s, fmt.sep), fmt.order)

\* %Y of strftime: the C library's, which pads a year below 1000 with zeros
\* on some platforms and writes it without them on others
year_text(y, padded) ==
    IF padded \/ y >= 1000 THEN Pad4(y)
    ELSE IF y >= 100 THEN SubSeq(Pad4(y), 2, 4)
    ELSE IF y >= 10 THEN SubSeq(Pad4(y), 3, 4)
    ELSE SubSeq(Pad4(y), 4, 4)

\* strftime("%Y%m%d")
strftime(t, padded) == year_text(t.Y, padded) \o Pad2(t.m) \o Pad2(t.d)

\* the loop over the patterns from the k-th on: the first that parses wins
RECURSIVE try_formats(_, _, _)
format_or_next(t, s, k, padded) ==
    IF t.ok THEN strftime(t, padded) ELSE try_formats(s, k + 1, padded)
try_formats(s, k, padded) ==
    IF k > Len(DATE_FORMATS) THEN <<>>
    ELSE format_or_next(strptime(s, DATE_FORMATS[k]), s, k, padded)

stripped_to_yyyymmdd(s, padded) ==
    IF Len(s) = 8 /\ isdigit(s) THEN s ELSE try_formats(s, 1, padded)

\* to_yyyymmdd on a platform whose %Y pads the year, or does not
to_yyyymmdd_by(val, padded) ==
    IF val = None \/ val = <<>> THEN <<>> ELSE stripped_to_yyyymmdd(strip(val), padded)

\* the dates of the run below have years from 1000 on, where the platforms agree
to_yyyymmdd(val) == to_yyyymmdd_by(val, TRUE)

is_valid_date(date_string, min_date) ==
    IF date_string = None \/ date_string = <<>> THEN FALSE
    ELSE StrLE(min_date, date_string)

-----------------------------------------------------------------------------
(* Stable sort: DataFrame.sort_values(kind="stable") and list.sort(key=...) *)

\* s ordered by Before (a strict order on keys), ties kept in their order in s
stable_sort(s, Before(_, _)) ==
    LET pos(k) == 1 + Cardinality({j \in 1..Len(s) :
                        Before(s[j], s[k]) \/ (~Before(s[k], s[j]) /\ j < k)})
    IN  [p \in 1..Len(s) |-> s[CHOOSE k \in 1..Len(s) : pos(k) = p]]

-----------------------------------------------------------------------------
(* Period discovery *)

NoPeriod == << <<>>, <<>> >>

ABIERTO == <<"a","b","i","e","r","t","o">>
CERRADO == <<"c","e","r","r","a","d","o">>

\* mutant: a period is kept whatever its two dates
period_pair_any(start, end) == << <<start, end>> >>

\* lines 122-127 and 152-157: the (start, end) pairs of the items of one
\* status whose two dates are both readable, in the order of the answer
period_pair(start, end) == IF start # <<>> /\ end # <<>> THEN << <<start, end>> >> ELSE <<>>

RECURSIVE period_pairs(_, _)
period_pairs(items, status) ==
    IF items = <<>> THEN <<>>
    ELSE (IF lower(strip(Head(items).status)) = status
          THEN period_pair(to_yyyymmdd(Head(items).month), to_yyyymmdd(Head(items).end_date))
          ELSE <<>>) \o period_pairs(Tail(items), status)

ByEnd(a, b) == StrLT(a[2], b[2])

\* lines 129-133 and 159-164: sorted by end, the last one
last_by_end(found) ==
    IF found = <<>> THEN NoPeriod ELSE stable_sort(found, ByEnd)[Len(found)]

latest_period(items, status) == last_by_end(period_pairs(items, status))

\* r is the answer to GET /process_periods: r.ok = FALSE is a network error or
\* an error status (raise_for_status)
\* mutant: the open period is looked up among the closed ones
fetch_latest_open_period_cerrado(r) ==
    IF ~r.ok THEN NoPeriod ELSE latest_period(r.data, CERRADO)

fetch_latest_open_period(r) ==
    IF ~r.ok THEN NoPeriod ELSE latest_period(r.data, ABIERTO)

fetch_latest_closed_period(r) ==
    IF ~r.ok THEN NoPeriod ELSE latest_period(r.data, CERRADO)

-----------------------------------------------------------------------------
(* Employee-level rules *)

\* emp.get("current_job") or {}: a null current job reads as one with no fields
current_job_or_empty(emp) ==
    IF emp.current_job.null
    THEN [null |-> FALSE, start_date |-> None, end_date |-> None,
          termination_reason |-> <<>>]
    ELSE emp.current_job

\* mutant: the exit date is not looked at
status_of_ignores_end_date(end_date) ==
    [is_active |-> TRUE, end_date |-> None, destination |-> "active"]

status_of(end_date) ==
    IF end_date # None /\ end_date # <<>>
    THEN [is_active |-> FALSE, end_date |-> end_date, destination |-> "filtered"]
    ELSE [is_active |-> TRUE, end_date |-> None, destination |-> "active"]

analyze_employee_status(emp) == status_of(current_job_or_empty(emp).end_date)

\* emp.get("current_job", {}) keeps a null current job, and .get on it raises
analyze_employee_contracts_raises(emp) == emp.current_job.null

\* lines 605-610: the start date of a job, if present and readable
date_of_job(start_date) ==
    IF start_date # None /\ start_date # <<>> /\ strip(start_date) # <<>>
          /\ to_yyyymmdd(start_date) # <<>>
    THEN <<to_yyyymmdd(start_date)>>
    ELSE <<>>

\* lines 603-610: all_dates, in the order of the jobs array
RECURSIVE all_dates_of(_, _)
all_dates_of(jobs, k) ==
    IF k > Len(jobs) THEN <<>>
    ELSE date_of_job(jobs[k].start_date) \o all_dates_of(jobs, k + 1)

\* min() of a list: the first of its least elements
RECURSIVE min_from(_, _, _)
min_from(dates, k, least) ==
    IF k > Len(dates) THEN least
    ELSE min_from(dates, k + 1, IF StrLT(dates[k], least) THEN dates[k] ELSE least)

\* mutant: the first date of the array is taken for the oldest
oldest_of_first(all_dates) == IF all_dates = <<>> THEN <<>> ELSE all_dates[1]

\* lines 600-614: min(all_dates), "" when there is none
oldest_of(all_dates) ==
    IF all_dates = <<>> THEN <<>> ELSE min_from(all_dates, 2, all_dates[1])

contract_analysis_of(oldest_start_date, current_contract_date) ==
    [oldest_start_date |->
         IF oldest_start_date # <<>> THEN oldest_start_date ELSE current_contract_date,
     current_contract_date |-> current_contract_date]

analyze_employee_contracts(emp) ==
    contract_analysis_of(
        oldest_of(all_dates_of(emp.jobs, 1)),
        to_yyyymmdd(emp.current_job.start_date))

-----------------------------------------------------------------------------
(* Row builder *)

WHITESPACE == {" "}
ASCII == {" ", "-", ".", "/", "A", "C", "K", "a", "b", "c", "d", "e", "i", "k",
          "n", "o", "r", "s", "t"} \cup Digits

RECURSIVE collapse_ws(_)
collapse_ws(s) ==
    IF s = <<>> THEN <<>>
    ELSE IF Head(s) \in WHITESPACE /\ Tail(s) # <<>> /\ Head(Tail(s)) \in WHITESPACE
         THEN collapse_ws(Tail(s))
         ELSE <<Head(s)>> \o collapse_ws(Tail(s))

ascii_of(c) ==
    CASE c = "n~" -> <<"n">> [] c = "N~" -> <<"N">>
      [] c = "en-dash" -> <<"-">> [] c = "em-dash" -> <<"-">>
      [] c \in ASCII -> <<c>>
      [] OTHER -> <<>>

RECURSIVE to_ascii(_)
to_ascii(s) == IF s = <<>> THEN <<>> ELSE ascii_of(Head(s)) \o to_ascii(Tail(s))

\* the replacements, then NFKD + ascii/ignore (a character outside ASCII that
\* has no replacement is dropped), then whitespace collapsed and trimmed
normalize_ascii(text) ==
    IF text = None THEN <<>> ELSE strip(collapse_ws(to_ascii(text)))

\* a value that is not a string (None) is left as it is
normalize_row_text(row) ==
    [k \in DOMAIN row |-> IF row[k] = None THEN None ELSE normalize_ascii(row[k])]

\* TERMINATION_REASON_MAP.get(reason): None for a reason that is not a key
TERMINATION_REASON_MAP(reason) ==
    CASE reason = <<"r","e","n","u","n","c","i","a">> -> <<"1">>
      [] reason = <<"n","e","c","e","s","i","d","a","d","e","s","_","e","m","p","r","e","s","a">> -> <<"2">>
      [] reason = <<"m","u","t","u","o","_","a","c","u","e","r","d","o">> -> <<"3">>
      [] reason = <<"v","e","n","c","i","m","i","e","n","t","o","_","p","l","a","z","o">> -> <<"7">>
      [] reason = <<"f","i","n","_","s","e","r","v","i","c","i","o">> -> <<"7">>
      [] reason = <<"m","u","e","r","t","e">> -> <<"6">>
      [] reason = <<"n","o","_","c","o","n","c","u","r","r","e","n","c","i","a">> -> <<"9","9">>
      [] reason = <<"i","n","c","u","m","p","l","i","m","i","e","n","t","o">> -> <<"9","9">>
      [] reason = <<"f","a","l","t","a","_","p","r","o","b","i","d","a","d">> -> <<"9","9">>
      [] reason = <<"t","r","a","n","s","f","e","r","e","n","c","i","a">> -> <<"4">>
      [] reason = <<"r","e","t","i","r","o">> -> <<"5">>
      [] reason = <<"d","i","v","e","s","t","u","r","e">> -> <<"2">>
      [] reason = <<"r","e","s","e","t","_","e","n","t","r","y">> -> <<"9","5">>
      [] OTHER -> None

\* str(termination_reason)
reason_text(termination_reason) ==
    IF termination_reason = None THEN <<"N","o","n","e">> ELSE termination_reason

\* lines 354-367: the exit date is not consulted
determine_exit_reason(job) ==
    TERMINATION_REASON_MAP(strip(lower(reason_text(job.termination_reason))))
\* line 486: the words that make a contract dormant
DORMANT_STATUS ==
    { <<"i","n","a","c","t","i","v","o">>, <<"i","n","a","c","t","i","v","e">>,
      <<"s","u","s","p","e","n","s","o">>, <<"s","u","s","p","e","n","d","e","d">> }

\* mutant: the status field is looked at before the exit date
contract_status_of_status_first(end_date, status) ==
    IF status \in DORMANT_STATUS THEN <<"1">>
    ELSE IF end_date # None /\ end_date # <<>> THEN <<"0">>
    ELSE <<"3">>

\* lines 482-492
contract_status_of(end_date, status) ==
    IF end_date # None /\ end_date # <<>> THEN <<"0">>
    ELSE IF status \in DORMANT_STATUS THEN <<"1">>
    ELSE <<"3">>

map_contract_status_code(emp) ==
    contract_status_of(current_job_or_empty(emp).end_date, lower(emp.status))

NO_EXIT_DATE == <<"9","9","9","9","1","2","3","1">>

\* mutant: the exit date is written as it was read
company_exit_date_as_read(end_date) == end_date

\* line 1018: to_yyyymmdd(job.get("end_date")) or "99991231"
company_exit_date(end_date) == IF end_date # <<>> THEN end_date ELSE NO_EXIT_DATE

\* lines 968-976: dots removed, and the two parts around the hyphen joined
joined_dni(dni_raw, parts) == IF Len(parts) > 1 THEN parts[1] \o parts[2] ELSE dni_raw
dni_of(dni_raw) == joined_dni(dni_raw, split(dni_raw, "-"))

\* lines 1208-1325, for the columns of COLS this model follows
row_of(dni, oldest_start_date, start_date, end_date, exit_reason, contract_status) ==
    normalize_row_text(
      [c \in {"Personnel Number", "Company Entry Date", "Service Date",
              "Company Exit Date", "Exit Reason", "Contract Status",
              "Date Contract Status", "Date SPS_Eligibility"} |->
         CASE c = "Personnel Number"     -> dni
           [] c = "Company Entry Date"   -> oldest_start_date
           [] c = "Service Date"         -> oldest_start_date
           [] c = "Company Exit Date"    -> company_exit_date(end_date)
           [] c = "Exit Reason"          -> exit_reason
           [] c = "Contract Status"      -> contract_status
           [] c = "Date Contract Status" -> start_date
           [] c = "Date SPS_Eligibility" -> start_date])

build_employee_row(emp) ==
    row_of(dni_of(remove(emp.document_number, ".")),
           analyze_employee_contracts(emp).oldest_start_date,
           to_yyyymmdd(current_job_or_empty(emp).start_date),
           to_yyyymmdd(current_job_or_empty(emp).end_date),
           determine_exit_reason(current_job_or_empty(emp)),
           map_contract_status_code(emp))

\* the sort key of both frames
\* what int() accepts after the sign: digits, single underscores between them
int_accepts(t) ==
    /\ isdigit(remove(t, "_"))
    /\ t[1] # "_" /\ t[Len(t)] # "_"
    /\ \A k \in 1..(Len(t) - 1) : ~(t[k] = "_" /\ t[k + 1] = "_")

int_signed(t, digits) ==
    IF ~int_accepts(digits) THEN 0
    ELSE IF t[1] = "-" THEN 0 - DecValue(remove(digits, "_"))
    ELSE DecValue(remove(digits, "_"))

int_stripped(t) ==
    IF t = <<>> THEN 0
    ELSE int_signed(t, IF t[1] \in {"+", "-"} THEN Tail(t) ELSE t)

\* int(text), 0 when it raises: int() ignores surrounding whitespace
int_or_zero(text) == int_stripped(strip(text))

stripped_rut_number(s) ==
    IF s = <<>> THEN 0 ELSE int_or_zero(SubSeq(s, 1, Len(s) - 1))

extract_rut_number(rut_str) == stripped_rut_number(strip(rut_str))

ByPn(a, b) ==
    extract_rut_number(a["Personnel Number"]) < extract_rut_number(b["Personnel Number"])

\* mutant: rows of equal key come out in the reverse of their order
sort_by_pn_ties_reversed(rows) ==
    stable_sort([k \in 1..Len(rows) |-> rows[Len(rows) + 1 - k]], ByPn)

\* mutant: the rows are ordered by the key of all the digits of the number
sort_by_pn_all_digits(rows) ==
    stable_sort(rows, LAMBDA a, b :
        int_or_zero(SelectSeq(a["Personnel Number"], LAMBDA c : c \in Digits))
            < int_or_zero(SelectSeq(b["Personnel Number"], LAMBDA c : c \in Digits)))

\* mutant: the frame loses its first row
sort_by_pn_drops_row(rows) == Tail(stable_sort(rows, ByPn))

\* lines 1477-1482 and 1506-1511
sort_by_pn(rows) == stable_sort(rows, ByPn)

-----------------------------------------------------------------------------
(* Inputs: what the two collaborators can answer *)

Iso(y, m, d) == Pad4(y) \o <<"-">> \o Pad2(m) \o <<"-">> \o Pad2(d)
Dmy(d, m, y) == Pad2(d) \o <<"/">> \o Pad2(m) \o <<"/">> \o Pad4(y)
Ymd8(y, m, d) == Pad4(y) \o Pad2(m) \o Pad2(d)

Period(status, month, end_date) ==
    [status |-> status, month |-> month, end_date |-> end_date]

\* answers of GET /process_periods: a failure, and two different snapshots
PeriodResponses ==
    { [ok |-> FALSE, data |-> <<>>],
      [ok |-> TRUE, data |->
          << Period(CERRADO, Iso(2024, 6, 1), Iso(2024, 6, 30)),
             Period(CERRADO, Iso(2024, 5, 1), Iso(2024, 5, 31)),
             Period(ABIERTO, Iso(2024, 7, 1), Dmy(31, 7, 2024)) >>],
      [ok |-> TRUE, data |->
          << Period(<<" ","C","e","r","r","a","d","o">>, Ymd8(2024, 5, 1), Ymd8(2024, 5, 31)),
             Period(ABIERTO, None, Iso(2024, 8, 31)) >>] }

\* a job that carries a termination_reason, and one that has no such key
\* (job.get("termination_reason", "") is then "")
JobEnded(start_date, end_date, termination_reason) ==
    [null |-> FALSE, start_date |-> start_date, end_date |-> end_date,
     termination_reason |-> termination_reason]

Job(start_date, end_date) == JobEnded(start_date, end_date, <<>>)

NullJob == [null |-> TRUE, start_date |-> None, end_date |-> None,
            termination_reason |-> <<>>]

Hist(start_date) == [start_date |-> start_date]

\* an employee record with a status field, and one without (emp.get("status", "")
\* is then "")
EmpStatus(document_number, current_job, jobs, status) ==
    [document_number |-> document_number, current_job |-> current_job, jobs |-> jobs,
     status |-> status]

Emp(document_number, current_job, jobs) == EmpStatus(document_number, current_job, jobs, <<>>)

\* employee records the employees collaborator can return
EmpSet ==
    { \* terminated on the last day and on the first day of the June window
      EmpStatus(<<"2","2","-","k">>,
          JobEnded(Iso(2022, 9, 1), Dmy(30, 6, 2024), <<"r","e","n","u","n","c","i","a">>), <<>>,
          <<"i","n","a","c","t","i","v","e">>),
      Emp(<<"s","/","n">>, JobEnded(Iso(2022, 9, 1), Ymd8(2024, 6, 1), <<"o","t","r","o">>), <<>>),
      \* terminated after the window; terminated with an unreadable exit date
      Emp(<<"2","4","-","1">>, Job(Iso(2022, 9, 1), Iso(2024, 7, 1)), <<>>),
      Emp(<<"2","5","-","1">>, Job(Iso(2022, 9, 1), <<"n","/","a">>), <<>>),
      \* active, started on time; started on the last day of the open period
      EmpStatus(<<"1",".","2","-","3">>,
          JobEnded(Iso(2022, 9, 1), None, <<" ","M","u","t","u","o","_","A","c","u","e","r","d","o">>),
          <<Hist(Iso(2022, 9, 1)), Hist(<<"n","/","a">>)>>, <<"S","u","s","p","e","n","d","e","d">>),
      EmpStatus(<<"1","2"," ","-","4">>, Job(Ymd8(2024, 7, 31), <<>>), <<>>, <<"a","c","t","i","v","o">>),
      \* active, started after the open period ended
      Emp(<<"1","4","-","K">>, Job(Iso(2024, 8, 15), None), <<>>),
      \* active, an earlier contract older than the threshold
      EmpStatus(<<"1","6","-","1">>, Job(Iso(2022, 9, 1), None),
          <<Hist(Iso(2021, 5, 1)), Hist(Iso(2019, 3, 15)), Hist(Iso(2022, 9, 1))>>,
          <<"I","N","A","C","T","I","V","O">>),
      \* active, no readable start date on the current job
      Emp(<<"1","7","-","1">>, Job(None, None), <<Hist(Iso(2023, 1, 1))>>),
      \* no current job at all
      Emp(<<"1","8","-","1">>, NullJob, <<>>) }

\* sequences over S of length 1..n
SeqsUpTo(S, n) == UNION {[1..k -> S] : k \in 1..n}

-----------------------------------------------------------------------------
(* main() *)

\* an output file: not written, or written with the rows of a frame
NoFile == [written |-> FALSE, rows |-> <<>>]
to_csv(frame) == [written |-> TRUE, rows |-> frame]

MIN_DATE == <<"2","0","2","2","0","8","0","1">>

Request(endpoint, n, outcome) == [endpoint |-> endpoint, page |-> n, outcome |-> outcome]

\* history field of a row: the ordinal of the employee record it was built from
tagged(row, n) == row @@ ("_n" :> n)

Init ==
    /\ pc = "fetch_closed"
    /\ period_closed = NoPeriod
    /\ period_open = NoPeriod
    /\ page = 1
    /\ empleados = <<>>
    /\ i = 0
    /\ rows_activos = <<>>
    /\ all_rows = <<>>
    /\ filtered_rows = <<>>
    /\ added_activos_page = 0
    /\ added_fini_page = 0
    /\ total_added_activos = 0
    /\ total_added_fini = 0
    /\ processed_global = 0
    /\ df = <<>>
    /\ df_filtered = <<>>
    /\ csv_semi = NoFile
    /\ csv_filtered = NoFile
    /\ summary = <<>>
    /\ requests = <<>>
    /\ responses = <<>>
    /\ seen = <<>>
    /\ call = <<>>
    /\ returned = <<>>

\* line 1348
FetchClosedPeriod ==
    /\ pc = "fetch_closed"
    /\ \E r \in PeriodResponses :
          /\ period_closed' = fetch_latest_closed_period(r)
          /\ requests' = Append(requests,
                 Request("process_periods", 0, IF r.ok THEN "ok" ELSE "error"))
          /\ responses' = Append(responses, r)
    /\ pc' = "fetch_open"
    /\ UNCHANGED <<call, returned, period_open, page, empleados, i, rows_activos, all_rows,
                   filtered_rows, added_activos_page, added_fini_page,
                   total_added_activos, total_added_fini, processed_global,
                   df, df_filtered, csv_semi, csv_filtered, summary, seen>>

\* line 1354
FetchOpenPeriod ==
    /\ pc = "fetch_open"
    /\ \E r \in PeriodResponses :
          /\ period_open' = fetch_latest_open_period(r)
          /\ requests' = Append(requests,
                 Request("process_periods", 0, IF r.ok THEN "ok" ELSE "error"))
          /\ responses' = Append(responses, r)
    /\ pc' = "fetch_page"
    /\ UNCHANGED <<call, returned, period_closed, page, empleados, i, rows_activos, all_rows,
                   filtered_rows, added_activos_page, added_fini_page,
                   total_added_activos, total_added_fini, processed_global,
                   df, df_filtered, csv_semi, csv_filtered, summary, seen>>

\* answers of GET /employees?page=N while `left` more records may be returned
PageResponses(left) ==
    {[outcome |-> o, data |-> <<>>] : o \in {"network_error", "http_error", "empty"}}
    \cup {[outcome |-> "ok", data |-> d] : d \in SeqsUpTo(EmpSet, left)}

\* lines 1369-1397: one request; leaves the loop on an error, a status other
\* than 200 or a page without records
FetchPage ==
    /\ pc = "fetch_page"
    /\ \E r \in PageResponses(MaxEmps - processed_global) :
          /\ requests' = Append(requests, Request("employees", page, r.outcome))
          /\ IF r.outcome = "ok"
             THEN /\ empleados' = r.data
                  /\ i' = 0
                  /\ rows_activos' = <<>>
                  /\ added_activos_page' = 0
                  /\ added_fini_page' = 0
                  /\ pc' = "classify"
             ELSE /\ pc' = "csv_semi"
                  /\ UNCHANGED <<call, returned, empleados, i, rows_activos, added_activos_page,
                                 added_fini_page>>
    /\ UNCHANGED <<call, returned, period_closed, period_open, page, all_rows, filtered_rows,
                   total_added_activos, total_added_fini, processed_global,
                   df, df_filtered, csv_semi, csv_filtered, summary, responses, seen>>

period_found(p) == p[1] # <<>> /\ p[2] # <<>>

\* mutant: the last day of the closed period is left out
in_closed_window_exclusive(end_date) ==
    /\ period_found(period_closed)
    /\ end_date # <<>>
    /\ StrLE(period_closed[1], end_date)
    /\ StrLT(end_date, period_closed[2])

\* lines 1415-1421: does the terminated employee get a row
in_closed_window(end_date) ==
    /\ period_found(period_closed)
    /\ end_date # <<>>
    /\ StrLE(period_closed[1], end_date)
    /\ StrLE(end_date, period_closed[2])

\* mutant: the rule is applied even when no open period was found
skipped_by_open_period_always(start_date, end_date) ==
    ~ ( /\ end_date \in {None, <<>>, <<"0","0","0","0","0","0","0","0">>}
        /\ start_date # <<>>
        /\ StrLE(start_date, period_open[2]) )

\* mutant: the start date is not compared with the end of the open period
skipped_by_open_period_no_start(start_date, end_date) ==
    /\ period_found(period_open)
    /\ ~ (end_date \in {None, <<>>, <<"0","0","0","0","0","0","0","0">>})

\* lines 1424-1428: is the employee skipped by the open-period rule
skipped_by_open_period(start_date, end_date) ==
    /\ period_found(period_open)
    /\ ~ ( /\ end_date \in {None, <<>>, <<"0","0","0","0","0","0","0","0">>}
           /\ start_date # <<>>
           /\ StrLE(start_date, period_open[2]) )

\* lines 1431-1444: the four dates against the threshold
four_dates_valid(company_entry_date, service_date, date_contract_status, date_sps_elig) ==
    /\ is_valid_date(company_entry_date, MIN_DATE)
    /\ is_valid_date(service_date, MIN_DATE)
    /\ is_valid_date(date_contract_status, MIN_DATE)
    /\ is_valid_date(date_sps_elig, MIN_DATE)

\* mutant: only the dates of the current job are checked
contract_dates_valid_job_only(oldest_start_date, start_date) ==
    four_dates_valid(start_date, start_date, start_date, start_date)

contract_dates_valid(oldest_start_date, start_date) ==
    four_dates_valid(oldest_start_date, oldest_start_date, start_date, start_date)

passes_date_filters(emp, start_date) ==
    contract_dates_valid(analyze_employee_contracts(emp).oldest_start_date, start_date)

\* lines 1413-1447: what happens to one record: a terminated row, an active
\* row, nothing, or the exception of analyze_employee_contracts
classified(emp, destination, start_date, end_date) ==
    IF destination = "filtered"
    THEN (IF in_closed_window(end_date) THEN "filtered" ELSE "skip")
    ELSE IF skipped_by_open_period(start_date, end_date) THEN "skip"
    ELSE IF analyze_employee_contracts_raises(emp) THEN "raise"
    ELSE IF passes_date_filters(emp, start_date) THEN "active"
    ELSE "skip"

classify(emp) ==
    classified(emp, analyze_employee_status(emp).destination,
               to_yyyymmdd(current_job_or_empty(emp).start_date),
               to_yyyymmdd(current_job_or_empty(emp).end_date))

\* lines 1399-1447: one iteration of the loop over the page's records
ClassifyEmployee ==
    /\ pc = "classify"
    /\ i < Len(empleados)
    /\ \E emp \in {empleados[i + 1]} : \E outcome \in {classify(emp)} :
         \E row \in {IF outcome \in {"filtered", "active"}
                     THEN tagged(build_employee_row(emp), processed_global + 1)
                     ELSE <<>>} :
           /\ processed_global' = processed_global + 1
           /\ seen' = Append(seen, emp)
           /\ filtered_rows' = IF outcome = "filtered"
                               THEN Append(filtered_rows, row) ELSE filtered_rows
           /\ added_fini_page' = IF outcome = "filtered" THEN added_fini_page + 1
                                 ELSE added_fini_page
           /\ rows_activos' = IF outcome = "active"
                              THEN Append(rows_activos, row) ELSE rows_activos
           /\ added_activos_page' = IF outcome = "active" THEN added_activos_page + 1
                                    ELSE added_activos_page
           /\ i' = IF outcome = "raise" THEN i ELSE i + 1
           /\ pc' = IF outcome = "raise" THEN "raised" ELSE "classify"
    /\ UNCHANGED <<call, returned, period_closed, period_open, page, empleados, all_rows,
                   total_added_activos, total_added_fini, df, df_filtered,
                   csv_semi, csv_filtered, summary, requests, responses>>

\* mutant: the page number is not advanced
next_page_same(n) == n

\* line 1458
next_page(n) == n + 1

\* mutant: the rows of the page replace the active rows collected so far
EndPage_replaces_rows ==
    /\ pc = "classify"
    /\ i = Len(empleados)
    /\ all_rows' = rows_activos
    /\ total_added_activos' = total_added_activos + added_activos_page
    /\ total_added_fini' = total_added_fini + added_fini_page
    /\ page' = next_page(page)
    /\ pc' = "fetch_page"
    /\ UNCHANGED <<call, returned, period_closed, period_open, empleados, i, rows_activos,
                   filtered_rows, added_activos_page, added_fini_page,
                   processed_global, df, df_filtered, csv_semi, csv_filtered,
                   summary, requests, responses, seen>>

\* lines 1449-1458
EndPage ==
    /\ pc = "classify"
    /\ i = Len(empleados)
    /\ all_rows' = all_rows \o rows_activos
    /\ total_added_activos' = total_added_activos + added_activos_page
    /\ total_added_fini' = total_added_fini + added_fini_page
    /\ page' = next_page(page)
    /\ pc' = "fetch_page"
    /\ UNCHANGED <<call, returned, period_closed, period_open, empleados, i, rows_activos,
                   filtered_rows, added_activos_page, added_fini_page,
                   processed_global, df, df_filtered, csv_semi, csv_filtered,
                   summary, requests, responses, seen>>

\* lines 1461-1483
SortActive ==
    /\ pc = "csv_semi"
    /\ all_rows # <<>>
    /\ df' = sort_by_pn(all_rows)
    /\ pc' = "write_semi"
    /\ UNCHANGED <<call, returned, period_closed, period_open, page, empleados, i, rows_activos,
                   all_rows, filtered_rows, added_activos_page, added_fini_page,
                   total_added_activos, total_added_fini, processed_global,
                   df_filtered, csv_semi, csv_filtered, summary, requests,
                   responses, seen>>

\* mutant: the active rows are written as accumulated, without the sort
WriteActive_unsorted ==
    /\ pc = "csv_semi"
    /\ all_rows # <<>>
    /\ csv_semi' = to_csv(all_rows)
    /\ pc' = "csv_filtered"
    /\ UNCHANGED <<call, returned, period_closed, period_open, page, empleados, i, rows_activos,
                   all_rows, filtered_rows, added_activos_page, added_fini_page,
                   total_added_activos, total_added_fini, processed_global,
                   df, df_filtered, csv_filtered, summary, requests, responses, seen>>

\* line 1484
WriteActive ==
    /\ pc = "write_semi"
    /\ csv_semi' = to_csv(df)
    /\ pc' = "csv_filtered"
    /\ UNCHANGED <<call, returned, period_closed, period_open, page, empleados, i, rows_activos,
                   all_rows, filtered_rows, added_activos_page, added_fini_page,
                   total_added_activos, total_added_fini, processed_global,
                   df, df_filtered, csv_filtered, summary, requests, responses, seen>>

\* mutant: an empty active set is written as a file without rows
NoActiveRows_writes_empty ==
    /\ pc = "csv_semi"
    /\ all_rows = <<>>
    /\ csv_semi' = to_csv(all_rows)
    /\ pc' = "csv_filtered"
    /\ UNCHANGED <<call, returned, period_closed, period_open, page, empleados, i, rows_activos,
                   all_rows, filtered_rows, added_activos_page, added_fini_page,
                   total_added_activos, total_added_fini, processed_global,
                   df, df_filtered, csv_filtered, summary, requests, responses, seen>>

\* lines 1486-1487
NoActiveRows ==
    /\ pc = "csv_semi"
    /\ all_rows = <<>>
    /\ pc' = "csv_filtered"
    /\ UNCHANGED <<call, returned, period_closed, period_open, page, empleados, i, rows_activos,
                   all_rows, filtered_rows, added_activos_page, added_fini_page,
                   total_added_activos, total_added_fini, processed_global,
                   df, df_filtered, csv_semi, csv_filtered, summary, requests,
                   responses, seen>>

\* lines 1490-1512
SortFiltered ==
    /\ pc = "csv_filtered"
    /\ filtered_rows # <<>>
    /\ df_filtered' = sort_by_pn(filtered_rows)
    /\ pc' = "write_filtered"
    /\ UNCHANGED <<call, returned, period_closed, period_open, page, empleados, i, rows_activos,
                   all_rows, filtered_rows, added_activos_page, added_fini_page,
                   total_added_activos, total_added_fini, processed_global,
                   df, csv_semi, csv_filtered, summary, requests, responses, seen>>

\* line 1513
WriteFiltered ==
    /\ pc = "write_filtered"
    /\ csv_filtered' = to_csv(df_filtered)
    /\ pc' = "summary"
    /\ UNCHANGED <<call, returned, period_closed, period_open, page, empleados, i, rows_activos,
                   all_rows, filtered_rows, added_activos_page, added_fini_page,
                   total_added_activos, total_added_fini, processed_global,
                   df, df_filtered, csv_semi, summary, requests, responses, seen>>

\* lines 1515-1516
NoFilteredRows ==
    /\ pc = "csv_filtered"
    /\ filtered_rows = <<>>
    /\ pc' = "summary"
    /\ UNCHANGED <<call, returned, period_closed, period_open, page, empleados, i, rows_activos,
                   all_rows, filtered_rows, added_activos_page, added_fini_page,
                   total_added_activos, total_added_fini, processed_global,
                   df, df_filtered, csv_semi, csv_filtered, summary, requests,
                   responses, seen>>

\* lines 1518-1525
Summary ==
    /\ pc = "summary"
    /\ summary' = <<total_added_activos, total_added_fini>>
    /\ pc' = "done"
    /\ UNCHANGED <<call, returned, period_closed, period_open, page, empleados, i, rows_activos,
                   all_rows, filtered_rows, added_activos_page, added_fini_page,
                   total_added_activos, total_added_fini, processed_global,
                   df, df_filtered, csv_semi, csv_filtered, requests, responses, seen>>

Next ==
    \/ FetchClosedPeriod
    \/ FetchOpenPeriod
    \/ FetchPage
    \/ ClassifyEmployee
    \/ EndPage
    \/ SortActive
    \/ WriteActive
    \/ NoActiveRows
    \/ SortFiltered
    \/ WriteFiltered
    \/ NoFilteredRows
    \/ Summary

Spec == Init /\ [][Next]_vars

\* the interpreter runs the statement that is next as long as the run has not
\* ended or raised: every step of Next changes pc or i, and one is enabled
\* in every other state
Runs ==
    /\ pc \notin {"done", "raised"}
    /\ pc' \in {"fetch_closed", "fetch_open", "fetch_page", "classify", "csv_semi",
                "write_semi", "csv_filtered", "write_filtered", "summary", "done", "raised"}
    /\ i' \in 0..MaxEmps

FairSpec == Spec /\ WF_<<pc, i>>(Runs)

-----------------------------------------------------------------------------
(* The period selection on its own: one answer of process_periods, drawn    *)
(* from every list of up to MaxPeriods items, and both selections from it   *)

MaxPeriods == 3

PeriodItems ==
    { Period(CERRADO, Iso(2024, 5, 1), Iso(2024, 5, 31)),
      Period(CERRADO, Iso(2024, 6, 1), Dmy(30, 6, 2024)),
      Period(<<"C","e","r","r","a","d","o"," ">>, None, Iso(2024, 7, 31)),
      Period(ABIERTO, Iso(2024, 7, 1), Iso(2024, 7, 31)),
      Period(ABIERTO, Ymd8(2024, 8, 1), Ymd8(2024, 8, 31)),
      Period(ABIERTO, <<"n","/","a">>, Iso(2024, 9, 30)),
      Period(ABIERTO, Iso(2024, 6, 1), <<>>),
      Period(<<"o","t","r","o">>, Iso(2024, 10, 1), Iso(2024, 10, 31)) }

InitPeriods ==
    /\ pc = "periods"
    /\ responses \in {<<[ok |-> TRUE, data |-> d]>> :
                        d \in {<<>>} \cup SeqsUpTo(PeriodItems, MaxPeriods)}
    /\ period_closed = NoPeriod
    /\ period_open = NoPeriod
    /\ page = 1
    /\ empleados = <<>>
    /\ i = 0
    /\ rows_activos = <<>>
    /\ all_rows = <<>>
    /\ filtered_rows = <<>>
    /\ added_activos_page = 0
    /\ added_fini_page = 0
    /\ total_added_activos = 0
    /\ total_added_fini = 0
    /\ processed_global = 0
    /\ df = <<>>
    /\ df_filtered = <<>>
    /\ csv_semi = NoFile
    /\ csv_filtered = NoFile
    /\ summary = <<>>
    /\ requests = <<>>
    /\ seen = <<>>
    /\ call = <<>>
    /\ returned = <<>>

SelectPeriods ==
    /\ pc = "periods"
    /\ period_closed' = fetch_latest_closed_period(responses[1])
    /\ period_open' = fetch_latest_open_period(responses[1])
    /\ pc' = "selected"
    /\ UNCHANGED <<call, returned, page, empleados, i, rows_activos, all_rows, filtered_rows,
                   added_activos_page, added_fini_page, total_added_activos,
                   total_added_fini, processed_global, df, df_filtered,
                   csv_semi, csv_filtered, summary, requests, responses, seen>>

SpecPeriods == InitPeriods /\ [][SelectPeriods]_vars

-----------------------------------------------------------------------------
(* Functions called on their own: the state is the call and what it returns *)

main_vars == <<period_closed, period_open, page, empleados, i, rows_activos,
               all_rows, filtered_rows, added_activos_page, added_fini_page,
               total_added_activos, total_added_fini, processed_global,
               df, df_filtered, csv_semi, csv_filtered, summary,
               requests, responses, seen>>

\* main() is not running
NotRunning ==
    /\ period_closed = NoPeriod /\ period_open = NoPeriod
    /\ page = 1 /\ empleados = <<>> /\ i = 0
    /\ rows_activos = <<>> /\ all_rows = <<>> /\ filtered_rows = <<>>
    /\ added_activos_page = 0 /\ added_fini_page = 0
    /\ total_added_activos = 0 /\ total_added_fini = 0 /\ processed_global = 0
    /\ df = <<>> /\ df_filtered = <<>>
    /\ csv_semi = NoFile /\ csv_filtered = NoFile
    /\ summary = <<>> /\ requests = <<>> /\ responses = <<>> /\ seen = <<>>

\* an item of a mapping (a dict keeps its items in order)
Item(k, v) == [k |-> k, v |-> v]

\* JSON values of an attribute: null, a number, a string
JNull == [kind |-> "null", n |-> 0, s |-> <<>>, items |-> <<>>]
JInt(n) == [kind |-> "int", n |-> n, s |-> <<>>, items |-> <<>>]
JStr(s) == [kind |-> "str", n |-> 0, s |-> s, items |-> <<>>]

RECURSIVE DecString(_)
DecString(n) ==
    IF n < 10 THEN <<DigitChar(n)>> ELSE DecString(n \div 10) \o <<DigitChar(n % 10)>>

\* str(v) of a number or a string
str(v) ==
    IF v.kind = "str" THEN v.s
    ELSE IF v.n < 0 THEN <<"-">> \o DecString(0 - v.n) ELSE DecString(v.n)

\* an object is the sequence of its (key, value) items in their order, a
\* list the sequence of its values
JDict(items) == [kind |-> "dict", n |-> 0, s |-> <<>>, items |-> items]
JList(values) == [kind |-> "list", n |-> 0, s |-> <<>>, items |-> values]

\* Python truth of a JSON value
truthy(v) ==
    CASE v.kind = "null" -> FALSE
      [] v.kind = "int" -> v.n # 0
      [] v.kind = "str" -> v.s # <<>>
      [] OTHER -> v.items # <<>>

\* to_yyyymmdd on a JSON value
to_yyyymmdd_of(v) == IF ~truthy(v) THEN <<>> ELSE stripped_to_yyyymmdd(strip(str(v)), TRUE)

-----------------------------------------------------------------------------
(* Attribute resolver: _norm_key, get_from_attrs *)

\* the six replacements of lines 294-295, after lower()
unaccented(c) ==
    CASE c = "a-acute" -> "a" [] c = "e-acute" -> "e" [] c = "i-acute" -> "i"
      [] c = "o-acute" -> "o" [] c = "u-acute" -> "u" [] c = "n~" -> "n"
      [] OTHER -> c

\* mutant: the hyphen and the underscore stay as they are
spaced_keeps_hyphen(c) == c

\* lines 296-297
spaced(c) == IF c \in {"-", "_"} THEN " " ELSE c

\* " ".join(s.split())
join_split(s) == strip(collapse_ws(s))

_norm_key(s) ==
    IF s = None THEN <<>>
    ELSE join_split([k \in 1..Len(s) |-> spaced(unaccented(LowerChar(s[k])))])


\* a custom_attributes field: null, or a mapping
NullAttrs == [null |-> TRUE, items |-> <<>>]
Attrs(items) == [null |-> FALSE, items |-> items]

\* `... or {}`
attrs_or_empty(dct) == IF dct.null THEN <<>> ELSE dct.items

first_wanted(dct, hits) ==
    IF hits = {} THEN JNull
    ELSE dct[CHOOSE x \in hits : \A y \in hits : x <= y].v

\* lines 302-309
_search(dct, keys) ==
    first_wanted(dct, {x \in 1..Len(dct) :
                          \E a \in 1..Len(keys) : _norm_key(dct[x].k) = _norm_key(keys[a])})

\* mutant: an empty string counts as not found
found_or_else_non_empty(first, second) ==
    IF first # JNull /\ first # JStr(<<>>) THEN first ELSE second

\* mutant: `first or second`, a falsy value counts as not found
found_or_else_truthy(first, second) == IF truthy(first) THEN first ELSE second

\* `if val is None: val = _search(...)`
found_or_else(first, second) == IF first # JNull THEN first ELSE second

\* mutant: the employee's attributes are always searched first
searched_employee_first(job_ca, emp_ca, keys, prefer_job) ==
    found_or_else(_search(emp_ca, keys), _search(job_ca, keys))

\* lines 315-322
searched(job_ca, emp_ca, keys, prefer_job) ==
    IF prefer_job THEN found_or_else(_search(job_ca, keys), _search(emp_ca, keys))
    ELSE found_or_else(_search(emp_ca, keys), _search(job_ca, keys))

\* lines 324-326
rendered(val, date) ==
    IF date THEN to_yyyymmdd_of(val)
    ELSE IF val = JNull THEN <<>> ELSE strip(str(val))

get_from_attrs(emp, keys, prefer_job, date) ==
    rendered(searched(attrs_or_empty(emp.current_job.custom_attributes),
                      attrs_or_empty(emp.custom_attributes), keys, prefer_job),
             date)

\* items a custom-attributes mapping may hold
MaxAttrs == 1

AttrEmp(job_ca, emp_ca) ==
    [current_job |-> [custom_attributes |-> job_ca], custom_attributes |-> emp_ca]

\* mappings of up to n items with distinct keys
Mappings(keys, values, n) ==
    {Attrs(m) : m \in {<<>>} \cup
        {m \in SeqsUpTo({Item(k, v) : k \in keys, v \in values}, n) :
            \A x, y \in 1..Len(m) : x # y => m[x].k # m[y].k}}

\* keys that read "a u" to the resolver, and keys that do not
KeysAU == { <<"A","-","U">>, <<"a-acute","_","u">>, <<"A-acute"," "," ","u"," ">> }
KeysOther == { <<"a"," ","u-diaeresis">>, <<"a","en-dash","u">>, <<"a","u">>, <<"b">> }

\* precedence of the two mappings, over null, zero, empty and padded values
PrecedenceCalls ==
    {[emp |-> AttrEmp(j, e), keys |-> << <<"a"," ","u">> >>, prefer_job |-> p, date |-> d] :
        j \in {NullAttrs} \cup Mappings({<<"A","-","U">>, <<"b">>},
                                   {JNull, JInt(0), JInt(7), JStr(<<"0">>), JStr(<<>>),
                                    JStr(<<" ","2","0","2","4","0","6","0","1">>)}, MaxAttrs),
        e \in Mappings({<<"a-acute","_","u">>, <<"b">>},
                       {JNull, JInt(0), JStr(<<"0">>), JStr(<<" ","k"," ">>)}, MaxAttrs),
        p \in BOOLEAN, d \in BOOLEAN}

\* matching of keys against aliases, over the spellings of a key
SpellingCalls ==
    {[emp |-> AttrEmp(Attrs(<<>>), e), keys |-> a, prefer_job |-> p, date |-> FALSE] :
        e \in Mappings(KeysAU \cup KeysOther, {JStr(<<"k">>), JStr(<<"n">>)}, MaxAttrs),
        a \in { << <<"A","_","U">> >>, << <<"b"," ","b">>, <<"a-acute","-","-","u">> >> },
        p \in BOOLEAN}

InitAttrs ==
    /\ pc = "call"
    /\ call \in PrecedenceCalls \cup SpellingCalls
    /\ returned = <<>>
    /\ NotRunning

GetFromAttrs ==
    /\ pc = "call"
    /\ returned' = get_from_attrs(call.emp, call.keys, call.prefer_job, call.date)
    /\ pc' = "returned"
    /\ UNCHANGED <<call, main_vars>>

SpecAttrs == InitAttrs /\ [][GetFromAttrs]_vars

-----------------------------------------------------------------------------
(* get_local_pay_level_best *)

LOCAL_PAY_LEVEL == <<"L","o","c","a","l"," ","P","a","y"," ","L","e","v","e","l">>
NOT_APPLICABLE == <<"N","O","T","_","A","P","P","L","I","C","A","B","L","E">>
GRIP_POSITION == <<"G","R","I","P"," ","P","o","s","i","t","i","o","n">>
CUSTOM_ATTRIBUTES == <<"c","u","s","t","o","m","_","a","t","t","r","i","b","u","t","e","s">>
CURRENT_JOB == <<"c","u","r","r","e","n","t","_","j","o","b">>
JOBS == <<"j","o","b","s">>
START_DATE == <<"s","t","a","r","t","_","d","a","t","e">>

\* dict.get(key): None when the key is absent
get(dct, key) ==
    IF \E x \in 1..Len(dct.items) : dct.items[x].k = key
    THEN dct.items[CHOOSE x \in 1..Len(dct.items) : dct.items[x].k = key].v
    ELSE JNull

\* `... or {}`
or_empty(v) == IF truthy(v) THEN v ELSE JDict(<<>>)

\* mutant: the sentinel passes as a level
valid_text_keeps_sentinel(s) == s # <<>> /\ Len(s) > 9

\* line 841
valid_text(s) == s # <<>> /\ upper(s) # NOT_APPLICABLE /\ Len(s) > 9

\* lines 838-841
_is_valid(v) == v # JNull /\ valid_text(strip(str(v)))

\* lines 843-850: the NBSP becomes a space, then as _norm_key
_norm_key_nbsp(s) == _norm_key([k \in 1..Len(s) |-> IF s[k] = "nbsp" THEN " " ELSE s[k]])

TARGET == _norm_key_nbsp(LOCAL_PAY_LEVEL)

first_target(dct, hits) ==
    IF hits = {} THEN JNull
    ELSE dct.items[CHOOSE x \in hits : \A y \in hits : x <= y].v

\* lines 854-859
_get_from(dct) ==
    IF dct.kind # "dict" THEN JNull
    ELSE first_target(dct, {x \in 1..Len(dct.items) : _norm_key_nbsp(dct.items[x].k) = TARGET})

\* line 861
_to_date(v) == IF truthy(v) THEN to_yyyymmdd_of(v) ELSE <<>>

\* stages 1 and 2: the level a custom-attributes mapping holds, if valid
level_of(ca) == IF _is_valid(_get_from(ca)) THEN strip(str(_get_from(ca))) ELSE <<>>

\* stage 3, lines 881-893: the valid level of the job with the latest start
\* date, and the first valid one while no job with a date has one
RECURSIVE best_of_jobs(_, _, _, _)
next_best(jobs, k, best, best_date, vv, d) ==
    IF ~_is_valid(vv) THEN best_of_jobs(jobs, k + 1, best, best_date)
    ELSE IF d # <<>> /\ (best_date = <<>> \/ StrLT(best_date, d))
         THEN best_of_jobs(jobs, k + 1, strip(str(vv)), d)
    ELSE IF best = <<>> THEN best_of_jobs(jobs, k + 1, strip(str(vv)), best_date)
    ELSE best_of_jobs(jobs, k + 1, best, best_date)

best_of_jobs(jobs, k, best, best_date) ==
    IF k > Len(jobs) THEN best
    ELSE next_best(jobs, k, best, best_date,
                   _get_from(or_empty(get(or_empty(jobs[k]), CUSTOM_ATTRIBUTES))),
                   _to_date(get(or_empty(jobs[k]), START_DATE)))

level_of_jobs(emp) == best_of_jobs(get(emp, JOBS).items, 1, <<>>, <<>>)

\* stage 4, lines 899-910: the valid levels found anywhere in the object,
\* in the order of the walk
candidate_of(val) == IF _is_valid(val) THEN <<strip(str(val))>> ELSE <<>>

values_of(obj) ==
    IF obj.kind = "dict" THEN [k \in 1..Len(obj.items) |-> obj.items[k].v] ELSE obj.items

RECURSIVE walk(_)
RECURSIVE walk_each(_, _)
walk_each(values, k) ==
    IF k > Len(values) THEN <<>> ELSE walk(values[k]) \o walk_each(values, k + 1)

walk(obj) ==
    IF obj.kind = "dict" THEN candidate_of(_get_from(obj)) \o walk_each(values_of(obj), 1)
    ELSE IF obj.kind = "list" THEN walk_each(obj.items, 1)
    ELSE <<>>

\* lines 913-918, times ten
score(val) ==
    (IF Len(val) >= 3 /\ SubSeq(val, 1, 3) = <<"C","L","_">> THEN 30 ELSE 0)
        + (IF Len(val) < 60 THEN Len(val) ELSE 60)

\* lines 919-920: the first of the candidates of highest score
best_candidate(candidates) ==
    IF candidates = <<>> THEN <<>>
    ELSE candidates[CHOOSE k \in 1..Len(candidates) :
            /\ \A j \in 1..Len(candidates) : score(candidates[j]) <= score(candidates[k])
            /\ \A j \in 1..(k - 1) : score(candidates[j]) < score(candidates[k])]

deep_scan(emp) == best_candidate(walk(emp))

\* stage 5, lines 925-930
first_truthy(a, b) == IF truthy(a) THEN a ELSE IF truthy(b) THEN b ELSE JStr(<<>>)

derived(grip) ==
    IF grip # <<>> /\ _is_valid(JStr(<<"C","L","_">> \o remove(grip, "-")))
    THEN <<"C","L","_">> \o remove(grip, "-")
    ELSE <<>>

derived_from_GRIP(job_ca, emp_ca) ==
    derived(strip(str(first_truthy(get(job_ca, GRIP_POSITION), get(emp_ca, GRIP_POSITION)))))

\* stage 6, lines 934-951: the matches of \bCL_[A-Z0-9]{7,}\b in the strings
\* of the object, in the order of the walk
is_word(c) ==
    \/ c \in Digits \cup {"_", "a-acute", "A-acute", "u-diaeresis", "n~", "N~"}
    \/ \E k \in 1..26 : LOWERCASE[k] = c \/ UPPERCASE[k] = c

is_upper_or_digit(c) == c \in Digits \/ \E k \in 1..26 : UPPERCASE[k] = c

RECURSIVE run_end(_, _)
run_end(text, q) ==
    IF q < Len(text) /\ is_upper_or_digit(text[q + 1]) THEN run_end(text, q + 1) ELSE q

\* where the match that starts at p ends, 0 when none starts there
match_to(text, p, q) ==
    IF q - (p + 2) >= 7 /\ (q = Len(text) \/ ~is_word(text[q + 1])) THEN q ELSE 0

match_end(text, p) ==
    IF /\ p + 2 <= Len(text)
       /\ SubSeq(text, p, p + 2) = <<"C","L","_">>
       /\ (p = 1 \/ ~is_word(text[p - 1]))
    THEN match_to(text, p, run_end(text, p + 2))
    ELSE 0

RECURSIVE findall(_, _)
found_at(text, p, q) ==
    IF q = 0 THEN findall(text, p + 1)
    ELSE <<SubSeq(text, p, q)>> \o findall(text, q + 1)

findall(text, p) == IF p > Len(text) THEN <<>> ELSE found_at(text, p, match_end(text, p))

\* str(o) of a leaf
text_of(o) == IF o.kind = "null" THEN <<"N","o","n","e">> ELSE str(o)

RECURSIVE find_any_string(_)
RECURSIVE find_in_each(_, _)
find_in_each(values, k) ==
    IF k > Len(values) THEN <<>>
    ELSE find_any_string(values[k]) \o find_in_each(values, k + 1)

find_any_string(obj) ==
    IF obj.kind \in {"dict", "list"} THEN find_in_each(values_of(obj), 1)
    ELSE findall(text_of(obj), 1)

first_or_empty(hits) == IF hits = <<>> THEN <<>> ELSE hits[1]

regex_scan(emp) == first_or_empty(find_any_string(emp))

\* the six stages in their order; a stage that has no valid level gives ""
stages(emp, job_ca, emp_ca) ==
    << level_of(job_ca), level_of(emp_ca), level_of_jobs(emp), deep_scan(emp),
       derived_from_GRIP(job_ca, emp_ca), regex_scan(emp) >>

\* the level of the first stage that has one
first_stage(levels) ==
    IF \A k \in 1..Len(levels) : levels[k] = <<>> THEN <<>>
    ELSE levels[CHOOSE k \in 1..Len(levels) :
                    levels[k] # <<>> /\ \A j \in 1..(k - 1) : levels[j] = <<>>]

job_ca_of(emp) == or_empty(get(or_empty(get(emp, CURRENT_JOB)), CUSTOM_ATTRIBUTES))
emp_ca_of(emp) == or_empty(get(emp, CUSTOM_ATTRIBUTES))

get_local_pay_level_best(emp) == first_stage(stages(emp, job_ca_of(emp), emp_ca_of(emp)))

\* historical jobs of an employee in a call of get_local_pay_level_best
MaxPayJobs == 1

Absent == [kind |-> "absent", n |-> 0, s |-> <<>>, items |-> <<>>]

\* an object of the given fields, the absent ones left out
Obj(fields) == JDict(SelectSeq(fields, LAMBDA it : it.v # Absent))

Level(tag) == JStr(<<"C","L","_","L","E","V","E","L","0">> \o tag)

PayJob(level, start_date) ==
    Obj(<< Item(START_DATE, start_date),
           Item(CUSTOM_ATTRIBUTES, Obj(<< Item(<<"l","o","c","a","l","_","p","a","y","-","l","e","v","e","l">>, level) >>)) >>)

PayJobs ==
    { PayJob(JStr(<<"n","o","t","_","a","p","p","l","i","c","a","b","l","e">>), JStr(Iso(2024, 2, 1))),
      PayJob(Level(<<"3","a">>), JNull),
      PayJob(Level(<<"3","b"," ">>), JStr(Iso(2023, 1, 1))),
      PayJob(Level(<<"3","c">>), JStr(Ymd8(2024, 2, 1))) }

PayEmp(top, emp_level, emp_grip, job_top, job_level, job_grip, jobs, notes) ==
    Obj(<< Item(LOCAL_PAY_LEVEL, top),
           Item(CUSTOM_ATTRIBUTES,
                Obj(<< Item(<<"L","O","C","A","L","nbsp","P","A","Y"," ","L","E","V","E","L">>, emp_level),
                       Item(GRIP_POSITION, emp_grip) >>)),
           Item(CURRENT_JOB,
                Obj(<< Item(<<"L","o","c","a","l","_","P","a","y","_","L","e","v","e","l">>, job_top),
                       Item(CUSTOM_ATTRIBUTES,
                            Obj(<< Item(LOCAL_PAY_LEVEL, job_level),
                                   Item(GRIP_POSITION, job_grip) >>)) >>)),
           Item(JOBS, JList(jobs)),
           Item(<<"n","o","t","e","s">>, notes) >>)

PayCalls ==
    {PayEmp(top, emp_level, emp_grip, job_top, job_level, job_grip, jobs, notes) :
        top \in {Absent, Level(<<"4">>)},
        emp_level \in {Absent, JStr(<<"C","L","_","9">>), Level(<<"2">>)},
        emp_grip \in {Absent, JStr(<<"C","S","-","1">>)},
        job_top \in {Absent, JStr(<<"T","O","P","-","L","E","V","E","L","-","I","N","-","J","O","B">>)},
        job_level \in {Absent, JStr(<<>>), JStr(<<" ","N","o","t","_","A","p","p","l","i","c","a","b","l","e">>),
                       Level(<<"1">>)},
        job_grip \in {Absent, JStr(<<"C","S","-","X","X","-","Y","Y","Y","-","0","9">>)},
        jobs \in {<<>>} \cup SeqsUpTo(PayJobs, MaxPayJobs),
        notes \in {Absent, JStr(<<"s","e","e"," ","C","L","_","R","E","G","E","X","0","1",".">>),
                   JStr(<<"C","L","_","R","E","G","E","X","0","1","b">>)}}
    \cup
    \* a GRIP Position that ends in a blank and a hyphen
    {PayEmp(top, emp_level, JStr(<<"C","S","-","X","X","-","Y","Y","Y","Y"," ","-">>),
            Absent, job_level, Absent, <<>>, notes) :
        top \in {Absent, Level(<<"4">>)},
        emp_level \in {Absent, JStr(<<"C","L","_","9">>), Level(<<"2">>)},
        job_level \in {Absent, JStr(<<" ","N","o","t","_","A","p","p","l","i","c","a","b","l","e">>)},
        notes \in {Absent, JStr(<<"C","L","_","R","E","G","E","X","0","1","b">>)}}

InitPayLevel ==
    /\ pc = "call"
    /\ call \in PayCalls
    /\ returned = <<>>
    /\ NotRunning

GetLocalPayLevelBest ==
    /\ pc = "call"
    /\ returned' = get_local_pay_level_best(call)
    /\ pc' = "returned"
    /\ UNCHANGED <<call, main_vars>>

SpecPayLevel == InitPayLevel /\ [][GetLocalPayLevelBest]_vars

\* calls that only the deep scan can decide: the key is held by the employee
\* object itself, by its current job and by objects of a list, never by a
\* custom_attributes mapping
MaxNested == 1

ScanValues ==
    { Absent, JNull, JStr(<<"s","h","o","r","t">>), Level(<<"4">>), Level(<<"5"," ">>),
      Level(<<"6","6","6">>),
      JStr(<<"T","O","P","-","L","E","V","E","L","-","I","N","-","J","O","B">>),
      JStr([k \in 1..41 |-> "X"]) }

ScanCalls ==
    {Obj(<< Item(LOCAL_PAY_LEVEL, top),
            Item(CURRENT_JOB,
                 Obj(<< Item(<<"L","o","c","a","l","_","P","a","y","_","L","e","v","e","l">>, job_top) >>)),
            Item(<<"n","e","s","t","e","d">>,
                 JList([k \in 1..Len(nested) |-> Obj(<< Item(LOCAL_PAY_LEVEL, nested[k]) >>)])) >>) :
        top \in ScanValues, job_top \in ScanValues,
        nested \in {<<>>} \cup SeqsUpTo(ScanValues \ {Absent, JNull}, MaxNested)}

InitDeepScan ==
    /\ pc = "call"
    /\ call \in ScanCalls
    /\ returned = <<>>
    /\ NotRunning

SpecDeepScan == InitDeepScan /\ [][GetLocalPayLevelBest]_vars

-----------------------------------------------------------------------------
(* analyze_employee_contracts on its own *)

\* historical jobs of an employee in a call of analyze_employee_contracts
MaxHist == 3

HistSet ==
    { Hist(Iso(2021, 5, 1)), Hist(Iso(2019, 3, 15)), Hist(Dmy(1, 1, 2022)),
      Hist(None), Hist(<<"n","/","a">>), Hist(<<" "," ">>) }

ContractCalls ==
    {Emp(<<"1","-","9">>, Job(start_date, None), jobs) :
        start_date \in {None, Iso(2018, 1, 1), Ymd8(2022, 1, 1)},
        jobs \in {<<>>} \cup SeqsUpTo(HistSet, MaxHist)}

InitContracts ==
    /\ pc = "call"
    /\ call \in ContractCalls
    /\ returned = <<>>
    /\ NotRunning

AnalyzeEmployeeContracts ==
    /\ pc = "call"
    /\ returned' = analyze_employee_contracts(call)
    /\ pc' = "returned"
    /\ UNCHANGED <<call, main_vars>>

SpecContracts == InitContracts /\ [][AnalyzeEmployeeContracts]_vars

-----------------------------------------------------------------------------
(* to_yyyymmdd on its own: one value normalized, and the result normalized  *)
(* again, on a platform of either kind                                      *)

\* blanks around the text of a date
MaxBlanks == 1

Blanks(n) == [k \in 1..n |-> " "]

\* a month or day written without a leading zero
Short(n) == IF n < 10 THEN <<DigitChar(n)>> ELSE Pad2(n)

\* the spellings of a date, existing or not, in the four patterns and as
\* eight digits
Spellings(y, m, d) ==
    { Iso(y, m, d), Dmy(d, m, y), Ymd8(y, m, d),
      Pad4(y) \o <<"/">> \o Pad2(m) \o <<"/">> \o Pad2(d),
      Pad2(d) \o <<"-">> \o Pad2(m) \o <<"-">> \o Pad4(y),
      Pad4(y) \o <<"-">> \o Short(m) \o <<"-">> \o Short(d),
      Short(d) \o <<"/">> \o Short(m) \o <<"/">> \o Pad4(y),
      Pad4(y) \o <<"-">> \o Pad2(m) \o <<"-", " ">> \o <<DigitChar(d % 10)>> }

DateTexts ==
    UNION {Spellings(y, m, d) : y \in {0, 50, 999, 1000, 2024},
                                m \in {0, 2, 12, 13}, d \in {0, 5, 29, 31}}
        \cup {<<"n","/","a">>, <<"9","9","9","0","1","0","1">>, <<"2","0","2","4">>}

DateCalls ==
    {None, <<>>} \cup
    {Blanks(a) \o text \o Blanks(b) :
        text \in DateTexts, a \in 0..MaxBlanks, b \in 0..MaxBlanks}

InitDates ==
    /\ pc = "call"
    /\ call \in [val : DateCalls, padded : BOOLEAN]
    /\ returned = <<>>
    /\ NotRunning

\* to_yyyymmdd(val)
NormalizeDate ==
    /\ pc = "call"
    /\ returned' = <<to_yyyymmdd_by(call.val, call.padded)>>
    /\ pc' = "returned"
    /\ UNCHANGED <<call, main_vars>>

\* to_yyyymmdd of what the first call returned
NormalizeDateAgain ==
    /\ pc = "returned"
    /\ returned' = Append(returned, to_yyyymmdd_by(returned[1], call.padded))
    /\ pc' = "again"
    /\ UNCHANGED <<call, main_vars>>

SpecDates == InitDates /\ [][NormalizeDate \/ NormalizeDateAgain]_vars

-----------------------------------------------------------------------------
(* nationality_codes *)

CHILE_NAMES ==
    { <<"C","L">>, <<"C","H">>, <<"C","H","I","L","E">>,
      <<"C","H","I","L","E","N","O">>, <<"C","H","I","L","E","N","A">> }

isalpha(s) ==
    s # <<>> /\ \A k \in 1..Len(s) :
        \E j \in 1..26 : s[k] = LOWERCASE[j] \/ s[k] = UPPERCASE[j]

\* lines 264-268, on str(value).strip().upper()
country_of(v) ==
    IF v \in CHILE_NAMES THEN <<"C","L">>
    ELSE IF Len(v) = 2 /\ isalpha(v) THEN v
    ELSE SubSeq(v, 1, IF Len(v) < 2 THEN Len(v) ELSE 2)

_norm_country(value) ==
    IF ~truthy(value) THEN <<>> ELSE country_of(upper(strip(str(value))))

\* lines 279-280: the codes of the entries x with str(x).strip(), the empty
\* codes dropped (str(None) is "None")
RECURSIVE codes_of(_, _)
codes_of(nats, k) ==
    IF k > Len(nats) THEN <<>>
    ELSE (IF (nats[k].kind = "null" \/ strip(str(nats[k])) # <<>>)
               /\ _norm_country(nats[k]) # <<>>
          THEN <<_norm_country(nats[k])>> ELSE <<>>) \o codes_of(nats, k + 1)

\* lines 281-282
first_three(codes) == SubSeq(codes \o << <<>>, <<>>, <<>> >>, 1, 3)

\* `a or b`
either(a, b) == IF truthy(a) THEN a ELSE b

\* lines 286-289
from_attributes(ca) ==
    << _norm_country(either(get(ca, "Nationality 1"), get(ca, "nationality_1"))),
       _norm_country(either(get(ca, "Nationality 2"), get(ca, "nationality_2"))),
       _norm_country(either(get(ca, "Nationality 3"), get(ca, "nationality_3"))) >>

nationality_codes(emp, ca) ==
    IF get(emp, "nationalities").kind = "list" /\ get(emp, "nationalities").items # <<>>
    THEN first_three(codes_of(get(emp, "nationalities").items, 1))
    ELSE IF get(emp, "nationality").kind = "str"
              /\ strip(get(emp, "nationality").s) # <<>>
    THEN << _norm_country(get(emp, "nationality")), <<>>, <<>> >>
    ELSE from_attributes(ca)

\* entries of a nationalities list
MaxNats == 4

NatItems == {JNull, JStr(<<>>), JStr(<<" ","c","l">>), JStr(<<"P","e","r","u">>)}

NatEmps ==
    {JDict(<<Item("nationalities", nats), Item("nationality", nat)>>) :
        nats \in {JNull, JList(<<>>)} \cup {JList(l) : l \in SeqsUpTo(NatItems, MaxNats)},
        nat \in {JNull, JStr(<<" ">>), JStr(<<"C","h","i","l","e","n","a">>), JInt(7)}}

NatAttrs ==
    { JDict(<<>>),
      JDict(<<Item("Nationality 1", JStr(<<"a","r">>)), Item("nationality_2", JStr(<<"B","r","a","s","i","l">>))>>),
      JDict(<<Item("Nationality 1", JStr(<<>>)), Item("nationality_1", JStr(<<"u","y">>)),
              Item("Nationality 3", JStr(<<" "," ">>))>>) }

InitNationality ==
    /\ pc = "call"
    /\ call \in [emp : NatEmps, ca : NatAttrs]
    /\ returned = <<>>
    /\ NotRunning

NationalityCodes ==
    /\ pc = "call"
    /\ returned' = nationality_codes(call.emp, call.ca)
    /\ pc' = "returned"
    /\ UNCHANGED <<call, main_vars>>

SpecNationality == InitNationality /\ [][NationalityCodes]_vars

-----------------------------------------------------------------------------
(* Properties *)

RowSet(s) == {s[k] : k \in 1..Len(s)}

\* the active rows, those of the page in progress included
ActiveSet == RowSet(all_rows) \cup RowSet(rows_activos)
TerminatedSet == RowSet(filtered_rows)

InActive(n) == \E row \in ActiveSet : row["_n"] = n
InTerminated(n) == \E row \in TerminatedSet : row["_n"] = n

\* the normalized dates of each employee record: its current job's exit and
\* start date, and the earliest readable start date of its job history (that
\* of the current job when the history has none)
Dates[emp \in EmpSet] ==
    LET ds == {to_yyyymmdd(emp.jobs[k].start_date) : k \in 1..Len(emp.jobs)} \ {<<>>}
    IN  [exit  |-> to_yyyymmdd(emp.current_job.end_date),
         start |-> to_yyyymmdd(emp.current_job.start_date),
         entry |-> IF ds = {} THEN to_yyyymmdd(emp.current_job.start_date)
                   ELSE CHOOSE d \in ds : \A e \in ds : StrLE(d, e)]

HasExitDate(emp) == emp.current_job.end_date \notin {None, <<>>}
ExitDateOf(emp) == Dates[emp].exit
StartDateOf(emp) == Dates[emp].start
EntryDateOf(emp) == Dates[emp].entry

Threshold == Ymd8(2022, 8, 1)
Qualifies(date) == date # <<>> /\ StrLE(Threshold, date)

EmployeeRequests == SelectSeq(requests, LAMBDA r : r.endpoint = "employees")
PeriodRequests == SelectSeq(requests, LAMBDA r : r.endpoint = "process_periods")

LastPageFailed ==
    /\ requests # <<>>
    /\ requests[Len(requests)].endpoint = "employees"
    /\ requests[Len(requests)].outcome \in {"network_error", "http_error"}

PhaseRank(p) ==
    CASE p \in {"fetch_closed", "fetch_open"} -> 1
      [] p \in {"fetch_page", "classify"} -> 2
      [] p = "csv_semi" -> 3
      [] p = "write_semi" -> 4
      [] p = "csv_filtered" -> 5
      [] p = "write_filtered" -> 6
      [] p = "summary" -> 7
      [] p = "done" -> 8
      [] p = "raised" -> 9
      [] OTHER -> 0

\* C1: no employee with a current-job exit date has a row in the active set,
\* no employee without one has a row in the terminated set, and no employee
\* has a row in both.
C1_PartitionDisjoint ==
    /\ \A row \in ActiveSet : ~HasExitDate(seen[row["_n"]])
    /\ \A row \in TerminatedSet : HasExitDate(seen[row["_n"]])
    /\ \A n \in 1..Len(seen) : ~(InActive(n) /\ InTerminated(n))

C1_Witness ==
    /\ pc = "done"
    /\ all_rows # <<>>
    /\ filtered_rows # <<>>
    /\ ~period_found(period_open)

\* C2: an employee with a current-job exit date has a terminated row exactly
\* when a closed period was found and its normalized exit date d satisfies
\* closed.start <= d <= closed.end; it never has an active row.
C2_TerminatedIffInWindow ==
    \A n \in 1..Len(seen) :
        HasExitDate(seen[n]) =>
            /\ InTerminated(n) <=>
                  /\ period_closed[1] # <<>> /\ period_closed[2] # <<>>
                  /\ StrLE(period_closed[1], ExitDateOf(seen[n]))
                  /\ StrLE(ExitDateOf(seen[n]), period_closed[2])
            /\ ~InActive(n)

C2_Witness ==
    /\ pc = "done"
    /\ \E n \in 1..Len(seen) :
          /\ InTerminated(n)
          /\ ExitDateOf(seen[n]) = period_closed[2]
    /\ \E n \in 1..Len(seen) :
          /\ HasExitDate(seen[n])
          /\ ~InTerminated(n)
          /\ period_found(period_closed)

C4_ActiveStartedByOpenEnd ==
    (period_open[1] # <<>> /\ period_open[2] # <<>>) =>
        \A row \in ActiveSet :
            /\ StartDateOf(seen[row["_n"]]) # <<>>
            /\ StrLE(StartDateOf(seen[row["_n"]]), period_open[2])

C4_Witness ==
    /\ pc = "done"
    /\ period_found(period_open)
    /\ \E row \in ActiveSet : StartDateOf(seen[row["_n"]]) = period_open[2]
    /\ \E n \in 1..Len(seen) :
          /\ ~HasExitDate(seen[n])
          /\ StrLT(period_open[2], StartDateOf(seen[n]))
          /\ ~InActive(n)

\* C5: every active row has Company Entry Date, Service Date, Date Contract
\* Status and Date SPS_Eligibility non-empty and >= "20220801", and an
\* employee for whom one of the four is empty or earlier has no active row.
C5_ActiveDatesQualify ==
    /\ \A row \in ActiveSet :
          \A c \in {"Company Entry Date", "Service Date", "Date Contract Status",
                    "Date SPS_Eligibility"} : Qualifies(row[c])
    /\ \A n \in 1..Len(seen) :
          (~Qualifies(EntryDateOf(seen[n])) \/ ~Qualifies(StartDateOf(seen[n])))
              => ~InActive(n)

C5_Witness ==
    /\ pc = "done"
    /\ all_rows # <<>>
    /\ \E n \in 1..Len(seen) :
          /\ ~HasExitDate(seen[n])
          /\ Qualifies(StartDateOf(seen[n]))
          /\ ~Qualifies(EntryDateOf(seen[n]))
          /\ ~InActive(n)

SameRows(a, b) ==
    /\ Len(a) = Len(b)
    /\ \A x \in RowSet(a) \cup RowSet(b) :
          Cardinality({k \in 1..Len(a) : a[k] = x}) = Cardinality({k \in 1..Len(b) : b[k] = x})

OrderedByKey(s) ==
    \A k \in 1..(Len(s) - 1) :
        extract_rut_number(s[k]["Personnel Number"])
            <= extract_rut_number(s[k + 1]["Personnel Number"])

C6_Step ==
    /\ (LastPageFailed' /\ requests' # requests) =>
          /\ pc = "fetch_page" /\ pc' = "csv_semi"
          /\ all_rows' = all_rows /\ filtered_rows' = filtered_rows
    /\ LastPageFailed =>
          /\ requests' = requests
          /\ all_rows' = all_rows /\ filtered_rows' = filtered_rows
    /\ (LastPageFailed /\ pc' = "done") =>
          /\ all_rows # <<>> =>
                (/\ csv_semi'.written /\ SameRows(csv_semi'.rows, all_rows)
                 /\ OrderedByKey(csv_semi'.rows))
          /\ filtered_rows # <<>> =>
                (/\ csv_filtered'.written /\ SameRows(csv_filtered'.rows, filtered_rows)
                 /\ OrderedByKey(csv_filtered'.rows))

\* C6: a failed page request (network error or status other than 200) ends
\* the pagination, leaves both row sets as they were, and they stay so until
\* each non-empty one has been sorted and written with all its rows.
C6_PageFailureKeepsRows == [][C6_Step]_vars

C6_Witness ==
    /\ pc = "done"
    /\ LastPageFailed
    /\ Len(EmployeeRequests) >= 2
    /\ all_rows # <<>>
    /\ filtered_rows # <<>>
    /\ csv_semi.written
    /\ csv_filtered.written

C7_Step ==
    /\ \A k \in 1..Len(EmployeeRequests') : EmployeeRequests'[k].page = k
    /\ \A k \in 1..(Len(EmployeeRequests') - 1) : EmployeeRequests'[k].outcome = "ok"
    /\ Len(EmployeeRequests') > Len(EmployeeRequests) =>
          /\ Len(EmployeeRequests') = Len(EmployeeRequests) + 1
          /\ i = Len(empleados)
          /\ processed_global = Len(seen)
    /\ (Len(EmployeeRequests) > 0
            /\ EmployeeRequests[Len(EmployeeRequests)].outcome # "ok") =>
          requests' = requests

\* C7: the employee pages are requested as 1, 2, 3, ... one request at a
\* time and each number once, a page is requested only when every record of
\* the page before has been classified, and nothing is requested after the
\* first page that has no records or fails.
C7_PagesInOrder == [][C7_Step]_vars

C7_Witness ==
    /\ Len(EmployeeRequests) = 3
    /\ EmployeeRequests[3].outcome = "empty"
    /\ Len(seen) = 2
    /\ pc = "done"

C8_Step ==
    /\ PhaseRank(pc') >= PhaseRank(pc)
    /\ EmployeeRequests' # <<>> =>
          /\ Len(PeriodRequests') = 2
          /\ requests'[1].endpoint = "process_periods"
          /\ requests'[2].endpoint = "process_periods"
          /\ PhaseRank(pc') >= 2
    /\ PhaseRank(pc') <= 2 =>
          /\ df' = <<>> /\ df_filtered' = <<>>
          /\ csv_semi' = NoFile /\ csv_filtered' = NoFile
    /\ csv_semi' # csv_semi => (df # <<>> /\ csv_semi'.rows = df /\ OrderedByKey(df))
    /\ csv_filtered' # csv_filtered =>
          (df_filtered # <<>> /\ csv_filtered'.rows = df_filtered /\ OrderedByKey(df_filtered))
    /\ PhaseRank(pc) >= 3 =>
          /\ requests' = requests
          /\ all_rows' = all_rows
          /\ filtered_rows' = filtered_rows
          /\ rows_activos' = rows_activos

\* C8: the run only moves forward through its phases: both period requests
\* come before the first employee page, nothing is sorted or written while
\* pages are still being fetched, a row set is written only after it has been
\* sorted, and after the loop no page is fetched and no row is added.
C8_PhasesForward == [][C8_Step]_vars

C8_Witness ==
    /\ pc = "done"
    /\ csv_semi.written
    /\ csv_filtered.written
    /\ Len(EmployeeRequests) >= 2

\* what each answer of process_periods offers for a status: the two dates
\* of its items of that status that have two readable dates
Offered[r \in PeriodResponses] ==
    [status \in {ABIERTO, CERRADO} |->
        {<<to_yyyymmdd(r.data[k].month), to_yyyymmdd(r.data[k].end_date)>> :
            k \in {j \in 1..Len(r.data) :
                      /\ lower(strip(r.data[j].status)) = status
                      /\ to_yyyymmdd(r.data[j].month) # <<>>
                      /\ to_yyyymmdd(r.data[j].end_date) # <<>>}}]

\* the period p is taken from the answer r: nothing when r failed or offers
\* nothing for the status, else one of the periods it offers
SelectedFrom(p, r, status) ==
    IF ~r.ok \/ Offered[r][status] = {} THEN p = NoPeriod
    ELSE p \in Offered[r][status]

\* C9 as claimed: process_periods is fetched exactly once in a run, and the
\* closed and the open period are both selected from that one answer.
C9_PeriodsFetchedOnce ==
    PhaseRank(pc) >= 2 =>
        /\ Len(PeriodRequests) = 1
        /\ SelectedFrom(period_closed, responses[1], CERRADO)
        /\ SelectedFrom(period_open, responses[1], ABIERTO)

\* C9 as amended: process_periods is fetched exactly twice in a run, first
\* for the closed period and then for the open one, before any employee
\* page, and each period is selected from the answer to its own request.
C9_PeriodsFetchedTwice ==
    PhaseRank(pc) >= 2 =>
        /\ Len(PeriodRequests) = 2
        /\ Len(responses) = 2
        /\ requests[1].endpoint = "process_periods"
        /\ requests[2].endpoint = "process_periods"
        /\ SelectedFrom(period_closed, responses[1], CERRADO)
        /\ SelectedFrom(period_open, responses[2], ABIERTO)

C9_Witness ==
    /\ pc = "done"
    /\ responses[1] # responses[2]
    /\ period_found(period_closed)
    /\ period_found(period_open)
    /\ ~SelectedFrom(period_open, responses[1], ABIERTO)

\* is p the latest period among the items its of data (greatest end date)
LatestAmong(p, data, its) ==
    IF its = {} THEN p = NoPeriod
    ELSE /\ \E k \in its :
               p = <<to_yyyymmdd(data[k].month), to_yyyymmdd(data[k].end_date)>>
         /\ \A k \in its : StrLE(to_yyyymmdd(data[k].end_date), p[2])

OfStatus(data, status) == {k \in 1..Len(data) : lower(strip(data[k].status)) = status}

Readable(data) ==
    {k \in 1..Len(data) :
        to_yyyymmdd(data[k].month) # <<>> /\ to_yyyymmdd(data[k].end_date) # <<>>}

\* C10 as claimed: the selected period of a status is one of that status
\* whose normalized end date is the greatest among all periods of that
\* status, and the empty pair if the status has no period.
C10_LatestOfStatus ==
    pc = "selected" =>
        /\ LatestAmong(period_open, responses[1].data, OfStatus(responses[1].data, ABIERTO))
        /\ LatestAmong(period_closed, responses[1].data, OfStatus(responses[1].data, CERRADO))

\* C10 as amended: the selected period of a status is one of that status
\* whose normalized end date is the greatest among the periods of that status
\* whose month and end date both normalize to a date, and the empty pair if
\* the status has no such period.
C10_LatestReadableOfStatus ==
    pc = "selected" =>
        /\ LatestAmong(period_open, responses[1].data,
                       OfStatus(responses[1].data, ABIERTO) \cap Readable(responses[1].data))
        /\ LatestAmong(period_closed, responses[1].data,
                       OfStatus(responses[1].data, CERRADO) \cap Readable(responses[1].data))

C10_Witness ==
    /\ pc = "selected"
    /\ period_found(period_open)
    /\ period_found(period_closed)
    /\ Cardinality(OfStatus(responses[1].data, ABIERTO)) >= 2
    /\ \E k \in OfStatus(responses[1].data, ABIERTO) \ Readable(responses[1].data) :
          StrLT(period_open[2], to_yyyymmdd(responses[1].data[k].end_date))

\* position of a row in a sequence of rows (rows carry distinct ordinals)
PosIn(s, row) == CHOOSE k \in 1..Len(s) : s[k] = row

KeptOrder(written, appended) ==
    \A k, l \in 1..Len(written) :
        (k < l /\ extract_rut_number(written[k]["Personnel Number"])
                    = extract_rut_number(written[l]["Personnel Number"]))
            => PosIn(appended, written[k]) < PosIn(appended, written[l])

\* C11: in each written output, two rows with equal numeric sort keys are in
\* the relative order in which they were appended to their set.
C11_SortStable ==
    /\ csv_semi.written => KeptOrder(csv_semi.rows, all_rows)
    /\ csv_filtered.written => KeptOrder(csv_filtered.rows, filtered_rows)

C11_Witness ==
    /\ pc = "done"
    /\ \E k, l \in 1..Len(csv_semi.rows) :
          /\ k < l
          /\ csv_semi.rows[k]["Personnel Number"] # csv_semi.rows[l]["Personnel Number"]
          /\ extract_rut_number(csv_semi.rows[k]["Personnel Number"])
                = extract_rut_number(csv_semi.rows[l]["Personnel Number"])

\* the key as claimed: the number read from the digits of the personnel
\* number, and no key (-1) when it has no digit
DigitsOnlyKey(pn) ==
    IF SelectSeq(pn, LAMBDA c : c \in Digits) = <<>> THEN -1
    ELSE DecValue(SelectSeq(pn, LAMBDA c : c \in Digits))

\* ascending by the digits of the number, the rows without a key last
AscendingByDigits(rows) ==
    \A k \in 1..(Len(rows) - 1) :
        \/ DigitsOnlyKey(rows[k + 1]["Personnel Number"]) = -1
        \/ /\ DigitsOnlyKey(rows[k]["Personnel Number"]) # -1
           /\ DigitsOnlyKey(rows[k]["Personnel Number"])
                 <= DigitsOnlyKey(rows[k + 1]["Personnel Number"])

\* the key of the code: the number written before the last character of the
\* personnel number, and 0 when that is not a number
LeadingKey(pn) ==
    IF Len(pn) >= 2 /\ isdigit(strip(SubSeq(pn, 1, Len(pn) - 1)))
    THEN DecValue(strip(SubSeq(pn, 1, Len(pn) - 1)))
    ELSE 0

AscendingByLeading(rows) ==
    \A k \in 1..(Len(rows) - 1) :
        LeadingKey(rows[k]["Personnel Number"]) <= LeadingKey(rows[k + 1]["Personnel Number"])

\* C12 as claimed: each written output is ascending by the integer read from
\* the digits of Personnel Number (every other character removed), and a row
\* whose number has no digit comes after all rows that have a key.
C12_SortedByDigits ==
    /\ csv_semi.written => AscendingByDigits(csv_semi.rows)
    /\ csv_filtered.written => AscendingByDigits(csv_filtered.rows)

\* C12 as amended: each written output is ascending by the integer read from
\* Personnel Number without its last character, which is 0 when that text is
\* not a number, so that such a row comes first.
C12_SortedByLeadingNumber ==
    /\ csv_semi.written => AscendingByLeading(csv_semi.rows)
    /\ csv_filtered.written => AscendingByLeading(csv_filtered.rows)

C12_Witness ==
    /\ pc = "done"
    /\ Len(csv_filtered.rows) = 2
    /\ LeadingKey(csv_filtered.rows[1]["Personnel Number"]) = 0
    /\ DigitsOnlyKey(csv_filtered.rows[1]["Personnel Number"]) = -1
    /\ LeadingKey(csv_filtered.rows[2]["Personnel Number"]) > 0
    /\ filtered_rows[1] = csv_filtered.rows[2]

\* C13: once the pagination has ended, a file is written for a row set
\* exactly when the set is not empty, each set on its own; before that no
\* file is written.
C13_WrittenIffNonEmpty ==
    /\ pc \in {"csv_filtered", "write_filtered", "summary", "done"} =>
          (csv_semi.written <=> all_rows # <<>>)
    /\ pc \in {"summary", "done"} => (csv_filtered.written <=> filtered_rows # <<>>)
    /\ pc \notin {"csv_filtered", "write_filtered", "summary", "done"} => ~csv_semi.written
    /\ pc \notin {"summary", "done"} => ~csv_filtered.written

C13_Witness ==
    /\ pc = "done"
    /\ all_rows = <<>>
    /\ ~csv_semi.written
    /\ filtered_rows # <<>>
    /\ csv_filtered.written

\* the items of the job-level and of the employee-level mapping of the call
JobAttrs == attrs_or_empty(call.emp.current_job.custom_attributes)
EmpAttrs == attrs_or_empty(call.emp.custom_attributes)

\* what a mapping yields for the aliases of the call: the value of its first
\* key that reads as one of them, null when it has none
Yields(m) ==
    LET hits == {x \in 1..Len(m) :
                    \E a \in 1..Len(call.keys) : _norm_key(m[x].k) = _norm_key(call.keys[a])}
    IN  IF hits = {} THEN JNull ELSE m[CHOOSE x \in hits : \A y \in hits : x <= y].v

FirstSearched == IF call.prefer_job THEN JobAttrs ELSE EmpAttrs
SecondSearched == IF call.prefer_job THEN EmpAttrs ELSE JobAttrs

\* C14: with prefer_job the result is the job-level value whenever the job
\* mapping yields one, and the employee-level value only when it yields
\* nothing; without prefer_job the other way round.
C14_PreferredMappingFirst ==
    pc = "returned" =>
        /\ Yields(FirstSearched) # JNull =>
              returned = rendered(Yields(FirstSearched), call.date)
        /\ Yields(FirstSearched) = JNull =>
              returned = rendered(Yields(SecondSearched), call.date)

C14_Witness ==
    /\ pc = "returned"
    /\ call.prefer_job
    /\ Yields(JobAttrs) # JNull
    /\ Yields(EmpAttrs) # JNull
    /\ rendered(Yields(JobAttrs), call.date) # rendered(Yields(EmpAttrs), call.date)
    /\ returned = rendered(Yields(JobAttrs), call.date)

IsZero(v) == v = JInt(0) \/ v = JStr(<<"0">>)

\* C15: with date = false a zero (the number 0 or the string "0") resolves
\* to "0": a zero in the mapping searched first is the result whatever the
\* second mapping holds, and so is a zero in the second when the first
\* yields nothing.
C15_ZeroIsKept ==
    (pc = "returned" /\ ~call.date) =>
        /\ IsZero(Yields(FirstSearched)) => returned = <<"0">>
        /\ (Yields(FirstSearched) = JNull /\ IsZero(Yields(SecondSearched)))
              => returned = <<"0">>

C15_Witness ==
    /\ pc = "returned"
    /\ ~call.date
    /\ Yields(FirstSearched) = JInt(0)
    /\ truthy(Yields(SecondSearched))
    /\ returned = <<"0">>

\* the canonical form of a key: lower case, the accented letters of Folded
\* replaced by their base letter, '-' and '_' as spaces, whitespace
\* collapsed and trimmed
BaseLetter(c) ==
    CASE c \in {"a-acute"} -> "a" [] c \in {"u-acute", "u-diaeresis"} -> "u"
      [] c = "n~" -> "n" [] OTHER -> c

Canonical(key, Folded) ==
    strip(collapse_ws([k \in 1..Len(key) |->
        IF LowerChar(key[k]) \in {"-", "_"} THEN " "
        ELSE IF LowerChar(key[k]) \in Folded THEN BaseLetter(LowerChar(key[k]))
        ELSE LowerChar(key[k])]))

\* the result is the value of the first key of the employee-level mapping
\* whose canonical form is that of an alias, and empty when no key has one
MatchedByCanonical(Folded) ==
    LET m == EmpAttrs
        hits == {x \in 1..Len(m) :
                    \E a \in 1..Len(call.keys) :
                        Canonical(m[x].k, Folded) = Canonical(call.keys[a], Folded)}
    IN  IF hits = {} THEN returned = <<>>
        ELSE returned = strip(str(m[CHOOSE x \in hits : \A y \in hits : x <= y].v))

IsValidLevel(text) ==
    /\ text # <<>>
    /\ [k \in 1..Len(text) |-> UpperChar(text[k])] # NOT_APPLICABLE
    /\ Len(text) >= 10

\* the text a mapping holds under the key, "" when it has none
HeldBy(ca) == IF _get_from(ca) = JNull THEN <<>> ELSE strip(str(_get_from(ca)))

\* what each stage holds for the employee of the call, in the fixed order
StageHolds ==
    << HeldBy(job_ca_of(call)), HeldBy(emp_ca_of(call)), level_of_jobs(call),
       deep_scan(call), derived_from_GRIP(job_ca_of(call), emp_ca_of(call)),
       regex_scan(call) >>

\* C17: the result is the value of the earliest stage, in the order current
\* job, employee, historical jobs, deep scan, GRIP Position, pattern scan,
\* that holds a valid value: an earlier stage with an invalid value (empty,
\* the sentinel, 9 characters or fewer) is passed over, and the result is
\* empty when no stage holds a valid one.
C17_EarliestValidStage ==
    pc = "returned" =>
        \E holds \in {StageHolds} :
            /\ \A k \in 1..6 :
                  (/\ IsValidLevel(holds[k])
                   /\ \A j \in 1..(k - 1) : ~IsValidLevel(holds[j]))
                      => returned = holds[k]
            /\ (\A k \in 1..6 : ~IsValidLevel(holds[k])) => returned = <<>>

C17_Witness ==
    /\ pc = "returned"
    /\ \E holds \in {StageHolds} :
          /\ holds[1] # <<>> /\ ~IsValidLevel(holds[1])
          /\ holds[2] # <<>> /\ ~IsValidLevel(holds[2])
          /\ holds[3] = <<>>
          /\ \A k \in 4..6 : IsValidLevel(holds[k])
          /\ returned = holds[4]
          /\ holds[4] # holds[5]

\* the start dates of the call that normalize to a date: those of the
\* historical jobs, and that of the current job
ReadableStarts(starts) == {to_yyyymmdd(d) : d \in starts \ {None}} \ {<<>>}
HistStarts == ReadableStarts({call.jobs[k].start_date : k \in 1..Len(call.jobs)})
CurrentStart == ReadableStarts({call.current_job.start_date})

Earliest(dates) ==
    IF dates = {} THEN <<>> ELSE CHOOSE d \in dates : \A e \in dates : StrLE(d, e)

\* C18: the earliest-entry date is the minimum of the readable start dates
\* of the historical jobs together with the current job, and so never later
\* than the readable start date of the current job.
C18_EarliestOfAllJobs ==
    pc = "returned" =>
        /\ returned.oldest_start_date = Earliest(HistStarts \cup CurrentStart)
        /\ \A d \in CurrentStart : StrLE(returned.oldest_start_date, d)

\* the jobs array of the call in the order perm
Permuted(perm) == [call EXCEPT !.jobs = [k \in 1..Len(call.jobs) |-> call.jobs[perm[k]]]]

\* C19: for every permutation of the jobs array, jobs with a missing or
\* unreadable start date included, oldest_start_date is the same.
C19_OrderIndependent ==
    pc = "returned" =>
        \A perm \in Permutations(1..Len(call.jobs)) :
            analyze_employee_contracts(Permuted(perm)).oldest_start_date
                = returned.oldest_start_date

C19_Witness ==
    /\ pc = "returned"
    /\ Len(call.jobs) = 3
    /\ call.jobs[1].start_date = Iso(2021, 5, 1)
    /\ call.jobs[2].start_date = <<"n","/","a">>
    /\ call.jobs[3].start_date = Iso(2019, 3, 15)
    /\ returned.oldest_start_date = Ymd8(2019, 3, 15)

\* C20: every row built for an employee whose current job has no exit date
\* has an empty Exit Reason, so every row of the active set has one.
C20_ActiveRowsHaveNoExitReason ==
    \A row \in ActiveSet : row["Exit Reason"] \in {<<>>, None}

\* the employee's termination reason is missing or is no key of the table
ReasonUnmapped(emp) ==
    TERMINATION_REASON_MAP(strip(lower(reason_text(emp.current_job.termination_reason)))) = None

OTHER_REASON == <<"9","9">>

\* C21: the row built for an employee with an exit date whose termination
\* reason is missing or is no key of TERMINATION_REASON_MAP has Exit Reason "99".
C21_UnmappedReasonIsOther ==
    \A row \in ActiveSet \cup TerminatedSet :
        HasExitDate(seen[row["_n"]]) /\ ReasonUnmapped(seen[row["_n"]])
            => row["Exit Reason"] = OTHER_REASON

IsDormant(emp) == lower(emp.status) \in DORMANT_STATUS

\* C22: the Contract Status of a built row is "0" when the employee's current
\* job has an exit date, whatever the status field; otherwise "1" when the
\* status field says inactive or suspended; otherwise "3".  So every row of
\* the terminated set has "0" and no row of the active set has.
C22_ContractStatusPriority ==
    /\ \A row \in ActiveSet \cup TerminatedSet :
          row["Contract Status"] =
              IF HasExitDate(seen[row["_n"]]) THEN <<"0">>
              ELSE IF IsDormant(seen[row["_n"]]) THEN <<"1">>
              ELSE <<"3">>
    /\ \A row \in TerminatedSet : row["Contract Status"] = <<"0">>
    /\ \A row \in ActiveSet : row["Contract Status"] # <<"0">>

C22_Witness ==
    /\ \E row \in TerminatedSet :
          IsDormant(seen[row["_n"]]) /\ row["Contract Status"] = <<"0">>
    /\ \E row \in ActiveSet : row["Contract Status"] = <<"1">>

EightDigits(s) == s # None /\ Len(s) = 8 /\ isdigit(s)

\* C23: to_yyyymmdd returns a string of eight digits unchanged, returns the
\* empty string or a string of eight digits for every value, and returns its
\* own result unchanged.
C23_NormalizerIdempotent ==
    /\ Len(returned) >= 1 =>
          /\ EightDigits(call.val) => returned[1] = call.val
          /\ returned[1] = <<>> \/ EightDigits(returned[1])
    /\ Len(returned) = 2 => returned[2] = returned[1]

InClosedWindow(date) ==
    /\ period_closed[1] # <<>> /\ period_closed[2] # <<>>
    /\ StrLE(period_closed[1], date) /\ StrLE(date, period_closed[2])

\* C24: every row of the active set has Company Exit Date "99991231", and
\* every row of the terminated set has the employee's normalized current-job
\* end date, which lies inside the closed-period window.
C24_ExitDateByDestination ==
    /\ \A row \in ActiveSet :
          row["Company Exit Date"] = <<"9","9","9","9","1","2","3","1">>
    /\ \A row \in TerminatedSet :
          /\ row["Company Exit Date"] = ExitDateOf(seen[row["_n"]])
          /\ EightDigits(row["Company Exit Date"])
          /\ InClosedWindow(row["Company Exit Date"])

C24_Witness ==
    /\ \E row \in ActiveSet : ~HasExitDate(seen[row["_n"]])
    /\ \E row \in TerminatedSet :
          seen[row["_n"]].current_job.end_date # row["Company Exit Date"]

\* the non-empty nationalities a source supplies
IsText(v) == v.kind = "str" /\ strip(v.s) # <<>>
ListSupplies(emp) ==
    IF get(emp, "nationalities").kind = "list"
    THEN SelectSeq(get(emp, "nationalities").items, IsText)
    ELSE <<>>

\* C25: nationality_codes returns three slots, all from the first of the
\* sources (nationalities list, nationality string, Nationality 1/2/3
\* attributes) that supplies a non-empty nationality: a list without one is
\* passed over for the nationality string.
C25_FirstSupplyingSource ==
    pc = "returned" =>
        /\ Len(returned) = 3
        /\ returned =
             IF ListSupplies(call.emp) # <<>>
             THEN first_three([k \in 1..Len(ListSupplies(call.emp)) |->
                                  _norm_country(ListSupplies(call.emp)[k])])
             ELSE IF IsText(get(call.emp, "nationality"))
             THEN << _norm_country(get(call.emp, "nationality")), <<>>, <<>> >>
             ELSE from_attributes(call.ca)

InLoop == pc \in {"fetch_page", "classify"}

Finished ==
    /\ pc = "done"
    /\ all_rows # <<>> => csv_semi.written /\ OrderedByKey(csv_semi.rows)
    /\ filtered_rows # <<>> => csv_filtered.written /\ OrderedByKey(csv_filtered.rows)

C26_LoopExit ==
    (InLoop /\ ~InLoop') =>
        /\ pc' = "csv_semi"
        /\ Len(requests') = Len(requests) + 1
        /\ requests'[Len(requests')].endpoint = "employees"
        /\ requests'[Len(requests')].outcome \in {"empty", "network_error", "http_error"}

\* C26: the employees collaborator of the model answers with an empty page or
\* a failure at the latest when MaxEmps records have been returned; every run
\* then leaves the pagination loop, sorts and writes both row sets (or reports
\* them empty) and reaches done, and the loop is left in no other way than by
\* such an answer.
C26_RunReachesDone == <>Finished /\ [][C26_LoopExit]_vars

HasMatch(m) ==
    \E x \in 1..Len(m) : \E a \in 1..Len(call.keys) : _norm_key(m[x].k) = _norm_key(call.keys[a])

\* C27: an empty string under a matching key of the mapping searched first
\* is the result, whatever the second mapping holds; a null under a matching
\* key is as if the key were absent, and the second mapping decides.
C27_EmptyFoundNullAbsent ==
    pc = "returned" =>
        /\ Yields(FirstSearched) = JStr(<<>>) => returned = <<>>
        /\ (HasMatch(FirstSearched) /\ Yields(FirstSearched) = JNull) =>
              returned = rendered(Yields(SecondSearched), call.date)

C27_Witness ==
    /\ pc = "returned"
    /\ Yields(FirstSearched) = JStr(<<>>)
    /\ rendered(Yields(SecondSearched), call.date) # <<>>
    /\ returned = <<>>

StartsWithCL(val) == Len(val) >= 3 /\ SubSeq(val, 1, 3) = <<"C","L","_">>
CappedLen(val) == IF Len(val) < 60 THEN Len(val) ELSE 60

\* the first of the longest values of the pool, lengths counted up to 60
FirstLongest(pool) ==
    pool[CHOOSE k \in 1..Len(pool) :
            /\ \A j \in 1..Len(pool) : CappedLen(pool[j]) <= CappedLen(pool[k])
            /\ \A j \in 1..(k - 1) : CappedLen(pool[j]) < CappedLen(pool[k])]

\* C28: when the deep scan decides, it returns a candidate that starts with
\* "CL_" whenever there is one, whatever the other candidates are; among the
\* candidates of that prefix status the longest, and of equally long ones the
\* first found.
C28_PrefixBeforeLength ==
    pc = "returned" =>
        \E holds \in {StageHolds} : \E found \in {walk(call)} :
            (/\ \A k \in 1..3 : ~IsValidLevel(holds[k])
             /\ found # <<>>) =>
                returned = FirstLongest(
                    IF \E k \in 1..Len(found) : StartsWithCL(found[k])
                    THEN SelectSeq(found, StartsWithCL) ELSE found)

\* C29: whatever stage produces it, the value returned is the empty string
\* or a string without blanks around it that is not empty, is not
\* NOT_APPLICABLE in any case, and is longer than 9 characters.
C29_ReturnedIsValidTrimmed ==
    pc = "returned" =>
        \/ returned = <<>>
        \/ /\ returned[1] # " " /\ returned[Len(returned)] # " "
           /\ IsValidLevel(returned)

IsPrefix(s, t) == Len(s) <= Len(t) /\ SubSeq(t, 1, Len(s)) = s

\* how many rows of the sequence were built from the n-th record received
RowsOf(s, n) == Cardinality({k \in 1..Len(s) : s[k]["_n"] = n})

C30_Step ==
    /\ IsPrefix(all_rows, all_rows')
    /\ IsPrefix(filtered_rows, filtered_rows')
    /\ \A n \in 1..Len(seen') :
          RowsOf(all_rows', n) + RowsOf(filtered_rows', n)
              + (IF pc' = "classify" THEN RowsOf(rows_activos', n) ELSE 0) <= 1
    /\ \A row \in ActiveSet' \cup TerminatedSet' : row["_n"] \in 1..Len(seen')
    /\ pc' = "done" => summary' = <<Len(all_rows'), Len(filtered_rows')>>

\* C30: every record received has at most one row in the active and the
\* terminated set together, a row once appended to either set stays where it
\* is and as it is, and the totals reported at the end of the run are the
\* sizes of the two sets.
C30_RowsOnlyAdded == [][C30_Step]_vars

C30_Witness ==
    /\ pc = "done"
    /\ page >= 3
    /\ all_rows # <<>> /\ filtered_rows # <<>>
    /\ \E a \in ActiveSet : \E t \in TerminatedSet : a["_n"] = 1 /\ t["_n"] = 2
    /\ summary = <<1, 1>>

====
